---- MODULE Spec2Model ----
(***************************************************************************)
(* A model of the RuSTy compiler driver (plc_driver) and of the type       *)
(* promotion rules of the type system (typesystem.rs).                     *)
(*                                                                         *)
(*   Spec       the build pipeline: parse, index, annotate, validate,      *)
(*              codegen, as driven by compile (lib.rs), by                 *)
(*              compile_to_string (tests.rs) and by compile                *)
(*              (tests/runner.rs)                                          *)
(*   SpecTypes  get_bigger_type and is_same_type_class applied to every    *)
(*              pair of a type universe                                    *)
(*   SpecValidate     global validation of every list of declarations      *)
(*   SpecArrayAccess  validation of every array access                     *)
(*   SpecEvaluate     the fixed point of evaluate_constants                *)
(*   SpecSizes        get_size of every array, get_length of every         *)
(*                    dimension                                            *)
(*   SpecLiterals     get_literal_actual_signed_type_name of every         *)
(*                    integer literal                                      *)
(*   SpecObjects      Object::try_from of every file name                  *)
(*   SpecConfig       Project::from_config of every descriptor             *)
(*   SpecIds          next_id by the calls of one build, interleaved       *)
(*   SpecPou          visit_pou of every POU against every index           *)
(***************************************************************************)
EXTENDS Integers, Sequences, FiniteSets, TLC

VARIABLES
    \* ---- the build pipeline ------------------------------------------
    entry,        \* the driver that runs the build
    project,      \* Project: [sources, includes, libraries]
    targets,      \* compile_parameters.target
    pc,           \* position of the driver
    loaded,       \* files handed to load_source, in call order
    units,        \* Vec<CompilationUnit>: [file, linkage]
    index,        \* the global Index
    reported,     \* what the diagnostician was handed, in call order
    stages,       \* the stages that have produced their artifact, and "emit" once emission began
    taskDone,     \* emission tasks (unit, target) that have run
    taskFailed,   \* some emission task returned Err
    overtaken,    \* some emission task has completed ahead of one listed before it
    objects,      \* GeneratedProject.objects / the module texts
    outcome,      \* result of the driver
    \* ---- get_bigger_type ---------------------------------------------
    left_type, right_type, bigger, tpc,
    same_class,   \* what is_same_type_class returned: "true", "false", or "-" before a call
    \* ---- parse_and_validate: global validation ------------------------
    decls,        \* the top-level declarations of the index, in declaration order
    diagnostics,  \* validator.diagnostics()
    vpc,
    \* ---- parse_and_validate: an array access --------------------------
    access_dims,  \* the dimensions of the accessed variable, nested arrays flattened
    access_idx,   \* the literal indexes of the access, one for each dimension
    access_diags, \* validator.diagnostics()
    apc,
    \* ---- evaluate_constants --------------------------------------------
    const_expressions, \* the const store of the index: id -> [expr, state, value]
    remaining,         \* the ConstIds not yet folded, in walk order
    unresolvables,     \* the ConstIds returned as unresolvable
    epc,
    \* ---- get_size and get_length ----------------------------------------
    size_type,     \* the array type that is sized
    size_result,   \* what get_size came to: [panicked, bytes]
    length_dim,    \* the dimension that is measured
    length_result, \* what get_length returned
    spc,
    \* ---- get_literal_actual_signed_type_name ------------------------------
    literal_value,  \* AstLiteral::Integer { value }
    literal_signed, \* the argument `signed`
    literal_hint,   \* the type hint of the literal's consumer, which the function is not handed
    literal_type,   \* the type name returned
    lpc,
    \* ---- Object::try_from ---------------------------------------------------
    object_path,    \* the file name of the path, as its parts between the dots
    object_result,  \* Ok(kind) or Err
    opc,
    \* ---- Project::from_config -------------------------------------------------
    config_path,    \* the path of the descriptor (plc.json)
    current_dir,    \* env::current_dir()
    file_system,    \* the files that exist, by absolute path
    project_config, \* ProjectConfig, the content of the descriptor
    config_result,  \* Ok(Project) or Err
    cpc,
    \* ---- IdProvider ------------------------------------------------------------
    current_id,     \* the counter all clones of the build's id provider share
    node_ids,       \* the ids each call has been handed, in the order it got them
    \* ---- validation::pou::visit_pou ---------------------------------------------
    pou,             \* the Pou that is validated: [pou_type, name]
    return_types,    \* the index: POU name -> its return type, or None
    pou_diagnostics, \* what was pushed to the validator
    ppc

pvars == <<entry, project, targets, pc, loaded, units, index, reported,
           stages, taskDone, taskFailed, overtaken, objects, outcome>>
tvars == <<left_type, right_type, bigger, tpc, same_class>>
gvars == <<decls, diagnostics, vpc>>
\* the variables of the functions that are modelled one call at a time
avars == <<access_dims, access_idx, access_diags, apc>>
evars == <<const_expressions, remaining, unresolvables, epc>>
svars == <<size_type, size_result, length_dim, length_result, spc>>
lvars == <<literal_value, literal_signed, literal_hint, literal_type, lpc>>
ovars == <<object_path, object_result, opc>>
\* the variables of the project crate
cvars == <<config_path, current_dir, file_system, project_config, config_result, cpc>>
ivars == <<current_id, node_ids>>
fvars == <<pou, return_types, pou_diagnostics, ppc>>
rvars == <<ovars, cvars, ivars, fvars>>
uvars == <<gvars, avars, evars, svars, lvars, rvars>>
vars  == <<pvars, tvars, uvars>>

(***************************************************************************)
(*                              TYPE SYSTEM                                *)
(***************************************************************************)

POINTER_SIZE == 64
DEFAULT_STRING_LEN == 80

NoDef == [kind |-> "Void", signed |-> FALSE, size |-> 0, encoding |-> "-",
          inner |-> "-", dims |-> <<>>]

\* DataTypeDefinition variants
IntegerDef(signed, size) == [NoDef EXCEPT !.kind = "Integer", !.signed = signed, !.size = size]
FloatDef(size)           == [NoDef EXCEPT !.kind = "Float", !.size = size]
StringDef(size, enc)     == [NoDef EXCEPT !.kind = "String", !.size = size, !.encoding = enc]
ArrayDef(inner, dims)    == [NoDef EXCEPT !.kind = "Array", !.inner = inner, !.dims = dims]
PointerDef(inner)        == [NoDef EXCEPT !.kind = "Pointer", !.inner = inner]

\* DataType
DataType(name, def, nature) == [name |-> name, definition |-> def, nature |-> nature]

\* TypeNature::is_numerical / is_real: the natures below ANY_NUM / ANY_REAL
is_numerical(t) == t.nature \in {"Num", "Int", "Signed", "Unsigned", "Real"}
is_real(t)      == t.nature = "Real"

\* the types get_builtin_types registers
get_builtin_types ==
    { DataType("VOID", NoDef, "Any"),
      DataType("UINT1",  IntegerDef(FALSE, 1),  "Bit"),
      DataType("UINT8",  IntegerDef(FALSE, 8),  "Unsigned"),
      DataType("UINT16", IntegerDef(FALSE, 16), "Unsigned"),
      DataType("UINT32", IntegerDef(FALSE, 32), "Unsigned"),
      DataType("UINT64", IntegerDef(FALSE, 64), "Unsigned"),
      DataType("INT8",   IntegerDef(TRUE, 8),   "Signed"),
      DataType("INT16",  IntegerDef(TRUE, 16),  "Signed"),
      DataType("INT32",  IntegerDef(TRUE, 32),  "Signed"),
      DataType("INT64",  IntegerDef(TRUE, 64),  "Signed"),
      DataType("BOOL",   IntegerDef(FALSE, 8),  "Bit"),
      DataType("REAL32", FloatDef(32), "Real"),
      DataType("REAL64", FloatDef(64), "Real"),
      DataType("STRING",  StringDef(DEFAULT_STRING_LEN + 1, "Utf8"),  "String"),
      DataType("WSTRING", StringDef(DEFAULT_STRING_LEN + 1, "Utf16"), "String"),
      DataType("CHAR",  IntegerDef(FALSE, 8),  "Char"),
      DataType("WCHAR", IntegerDef(FALSE, 16), "Char") }

\* the IEC 61131-3 names of the elementary types, as the index holds them once
\* resolve_alias_types has given each alias the definition of its target
get_alias_types ==
    { DataType("BYTE",  IntegerDef(FALSE, 8),  "Bit"),
      DataType("SINT",  IntegerDef(TRUE, 8),   "Signed"),
      DataType("USINT", IntegerDef(FALSE, 8),  "Unsigned"),
      DataType("WORD",  IntegerDef(FALSE, 16), "Bit"),
      DataType("INT",   IntegerDef(TRUE, 16),  "Signed"),
      DataType("UINT",  IntegerDef(FALSE, 16), "Unsigned"),
      DataType("DWORD", IntegerDef(FALSE, 32), "Bit"),
      DataType("DINT",  IntegerDef(TRUE, 32),  "Signed"),
      DataType("UDINT", IntegerDef(FALSE, 32), "Unsigned"),
      DataType("LWORD", IntegerDef(FALSE, 64), "Bit"),
      DataType("LINT",  IntegerDef(TRUE, 64),  "Signed"),
      DataType("ULINT", IntegerDef(FALSE, 64), "Unsigned"),
      DataType("REAL",  FloatDef(32), "Real"),
      DataType("LREAL", FloatDef(64), "Real") }

\* the index the type-system tests work on: built-in types plus resolved aliases
get_index == get_builtin_types \cup get_alias_types

\* Index::get_type: lookup by name, Err for a name that is not registered
HasType(ix, name) == \E t \in ix : t.name = name
get_type(ix, name) == CHOOSE t \in ix : t.name = name
\* Index::get_type_information_or_void
get_type_information_or_void(ix, name) ==
    IF HasType(ix, name) THEN get_type(ix, name).definition ELSE NoDef

\* Bytes::from_bits: sizes are kept in whole bytes
from_bits(n) == (n + 7) \div 8

\* Bytes::bits
bits(bytes) == bytes * 8

\* the number of bytes that 2^32 bits make: a size in bits is a u32
U32_BYTES == 536870912

\* a u32 above 2^31 - 1 is kept as its top bit and its low 31 bits
I32_MAX == 2147483647

\* Result<i64, String> and Result<u32, String>: the message of an Err is left out
Ok(v) == [ok |-> TRUE, value |-> v]
Err   == [ok |-> FALSE, value |-> 0]

\* TypeSize
LiteralInteger(v)   == [kind |-> "LiteralInteger", value |-> v]
ConstExpression(id) == [kind |-> "ConstExpression", id |-> id]

\* ConstExpressions::get_constant_int_statement_value once evaluate_constants
\* has run: VAR_GLOBAL CONSTANT start : INT := 1; end : INT := 2; and a
\* constant whose initializer names nothing that is declared
get_constant_int_statement_value(id) ==
    CASE id = "start" -> Ok(1)
      [] id = "end"   -> Ok(2)
      [] OTHER        -> Err

\* TypeSize::as_int_value
as_int_value(ts) ==
    IF ts.kind = "LiteralInteger" THEN Ok(ts.value) ELSE get_constant_int_statement_value(ts.id)

\* Dimension
Dimension(start, end) == [start_offset |-> start, end_offset |-> end]
\* a dimension whose bounds are literals
Dim(s, e) == Dimension(LiteralInteger(s), LiteralInteger(e))

\* the cast `as u32` of an i64 n with -2^31 <= n < 2^31: n itself, or 2^32 + n
\* for a negative n
as_u32(n) ==
    IF n >= 0 THEN [high |-> FALSE, low |-> n]
    ELSE [high |-> TRUE, low |-> (n + I32_MAX) + 1]

\* Dimension::get_length
get_length(dim) ==
    LET end   == as_int_value(dim.end_offset)
        start == as_int_value(dim.start_offset)
    IN IF ~end.ok \/ ~start.ok THEN [ok |-> FALSE, value |-> as_u32(0)]
       ELSE [ok |-> TRUE, value |-> as_u32(end.value - start.value + 1)]

\* Dimension::get_range, which leaves out the end
get_range(dim) ==
    LET start == as_int_value(dim.start_offset)
        end   == as_int_value(dim.end_offset)
    IN IF ~start.ok \/ ~end.ok THEN [ok |-> FALSE, value |-> {}]
       ELSE [ok |-> TRUE, value |-> start.value .. (end.value - 1)]

\* get_range_inclusive taken for get_range
get_range_inclusive_without_end(dim) == get_range(dim)

\* Dimension::get_range_inclusive
get_range_inclusive(dim) ==
    LET start == as_int_value(dim.start_offset)
        end   == as_int_value(dim.end_offset)
    IN IF ~start.ok \/ ~end.ok THEN [ok |-> FALSE, value |-> {}]
       ELSE [ok |-> TRUE, value |-> start.value .. end.value]

RECURSIVE Product(_)
Product(s) == IF s = <<>> THEN 1 ELSE Head(s) * Product(Tail(s))

StringBytesPerChar(enc) == IF enc = "Utf8" THEN 1 ELSE 2

\* let element_count: u32 = dimensions.iter().map(|dim| dim.get_length(index).unwrap()).product()
\* for dimensions whose lengths and their product are below 2^31
element_count(def) == Product([i \in 1..Len(def.dims) |-> get_length(def.dims[i]).value.low])

\* DataTypeDefinition::get_size, in bytes. The size of an array is
\* Bytes::from_bits(inner_size * element_count) with both factors u32 numbers of
\* bits, so the product is taken modulo 2^32 bits where the build lets it wrap;
\* inner_size is a whole number of bytes, and the product is formed in bytes
RECURSIVE get_size(_, _)
get_size(def, ix) ==
    CASE def.kind = "Integer" -> from_bits(def.size)
      [] def.kind = "Float"   -> from_bits(def.size)
      [] def.kind = "String"  -> from_bits(StringBytesPerChar(def.encoding) * def.size)
      [] def.kind = "Array"   ->
            (get_size(get_type_information_or_void(ix, def.inner), ix) * element_count(def))
                % U32_BYTES
      [] def.kind = "Pointer" -> from_bits(POINTER_SIZE)
      [] OTHER                -> from_bits(0)

\* DataTypeDefinition::get_size_in_bits
get_size_in_bits(def, ix) == bits(get_size(def, ix))

\* get_rank without the `+ 1` of a signed integer
get_rank_sign_blind(def, ix) ==
    CASE def.kind = "Integer" -> def.size
      [] def.kind = "Float"   -> def.size + 1000
      [] def.kind = "String"  -> def.size
      [] OTHER                -> get_size_in_bits(def, ix)

\* get_rank
get_rank(def, ix) ==
    CASE def.kind = "Integer" -> IF def.signed THEN def.size + 1 ELSE def.size
      [] def.kind = "Float"   -> def.size + 1000
      [] def.kind = "String"  -> def.size
      [] OTHER                -> get_size_in_bits(def, ix)

\* Index::find_intrinsic_type: no definition of the universe is an alias or a
\* sub-range, so each is its own intrinsic type
find_intrinsic_type(def, ix) == def

\* Index::find_elementary_pointer_type: the innermost non-pointer type
RECURSIVE find_elementary_pointer_type(_, _)
find_elementary_pointer_type(def, ix) ==
    IF def.kind = "Pointer"
    THEN find_elementary_pointer_type(get_type_information_or_void(ix, def.inner), ix)
    ELSE def

\* is_same_type_class
is_same_type_class(ltype0, rtype0, ix) ==
    LET ltype == find_intrinsic_type(ltype0, ix)
        rtype == find_intrinsic_type(rtype0, ix)
    IN CASE ltype.kind = "Integer" -> rtype.kind = "Integer"
         [] ltype.kind = "Float"   -> rtype.kind = "Float"
         [] ltype.kind = "String"  -> rtype.kind = "String" /\ rtype.encoding = ltype.encoding
         [] ltype.kind = "Pointer" ->
               CASE rtype.kind = "Integer" -> rtype.size = POINTER_SIZE
                 [] rtype.kind = "Pointer" ->
                       find_elementary_pointer_type(ltype, ix)
                           = find_elementary_pointer_type(rtype, ix)
                 [] OTHER -> FALSE
         [] OTHER -> ltype = rtype

\* get_bigger_type with the rank comparison `<=`: a tie returns the right type
get_bigger_type_ties_right(l, r, ix) ==
    LET lt == l.definition
        rt == r.definition
    IN IF is_same_type_class(lt, rt, ix)
       THEN IF get_rank(lt, ix) <= get_rank(rt, ix) THEN r ELSE l
       ELSE IF /\ HasType(ix, l.name) /\ HasType(ix, r.name)
               /\ is_numerical(get_type(ix, l.name)) /\ is_numerical(get_type(ix, r.name))
               /\ (is_real(get_type(ix, l.name)) \/ is_real(get_type(ix, r.name)))
            THEN LET real_type == get_type(ix, "REAL")
                     real_size == get_size_in_bits(real_type.definition, ix)
                 IN IF get_size_in_bits(lt, ix) > real_size \/ get_size_in_bits(rt, ix) > real_size
                    THEN get_type(ix, "LREAL")
                    ELSE real_type
            ELSE l

\* get_bigger_type with a final `else` that returns the right type
get_bigger_type_default_right(l, r, ix) ==
    LET lt == l.definition
        rt == r.definition
    IN IF is_same_type_class(lt, rt, ix)
       THEN IF get_rank(lt, ix) < get_rank(rt, ix) THEN r ELSE l
       ELSE IF /\ HasType(ix, l.name) /\ HasType(ix, r.name)
               /\ is_numerical(get_type(ix, l.name)) /\ is_numerical(get_type(ix, r.name))
               /\ (is_real(get_type(ix, l.name)) \/ is_real(get_type(ix, r.name)))
            THEN LET real_type == get_type(ix, "REAL")
                     real_size == get_size_in_bits(real_type.definition, ix)
                 IN IF get_size_in_bits(lt, ix) > real_size \/ get_size_in_bits(rt, ix) > real_size
                    THEN get_type(ix, "LREAL")
                    ELSE real_type
            ELSE r

\* get_bigger_type with the size test `&&`: LREAL only when both are wider than REAL
get_bigger_type_both_wide(l, r, ix) ==
    LET lt == l.definition
        rt == r.definition
    IN IF is_same_type_class(lt, rt, ix)
       THEN IF get_rank(lt, ix) < get_rank(rt, ix) THEN r ELSE l
       ELSE IF /\ HasType(ix, l.name) /\ HasType(ix, r.name)
               /\ is_numerical(get_type(ix, l.name)) /\ is_numerical(get_type(ix, r.name))
               /\ (is_real(get_type(ix, l.name)) \/ is_real(get_type(ix, r.name)))
            THEN LET real_type == get_type(ix, "REAL")
                     real_size == get_size_in_bits(real_type.definition, ix)
                 IN IF get_size_in_bits(lt, ix) > real_size /\ get_size_in_bits(rt, ix) > real_size
                    THEN get_type(ix, "LREAL")
                    ELSE real_type
            ELSE l

\* get_bigger_type
get_bigger_type(l, r, ix) ==
    LET lt == l.definition
        rt == r.definition
    IN IF is_same_type_class(lt, rt, ix)
       THEN IF get_rank(lt, ix) < get_rank(rt, ix) THEN r ELSE l
       ELSE IF /\ HasType(ix, l.name) /\ HasType(ix, r.name)
               /\ is_numerical(get_type(ix, l.name)) /\ is_numerical(get_type(ix, r.name))
               /\ (is_real(get_type(ix, l.name)) \/ is_real(get_type(ix, r.name)))
            THEN LET real_type == get_type(ix, "REAL")
                     real_size == get_size_in_bits(real_type.definition, ix)
                 IN IF get_size_in_bits(lt, ix) > real_size \/ get_size_in_bits(rt, ix) > real_size
                    THEN get_type(ix, "LREAL")
                    ELSE real_type
            ELSE l


\* a type no call has produced yet
NoType == DataType("-", NoDef, "-")

\* types the tests build by hand; none of them is registered in the index
UserTypes ==
    { DataType("STRING_1024",  StringDef(1024, "Utf8"),  "String"),
      DataType("STRING_30",    StringDef(30, "Utf8"),    "String"),
      DataType("STRING_30_B",  StringDef(30, "Utf8"),    "String"),
      DataType("WSTRING_1024", StringDef(1024, "Utf16"), "String"),
      DataType("ARRAY_1024",   ArrayDef("INT", <<Dim(0, 1023)>>), "Any"),
      DataType("ARRAY_30",     ArrayDef("INT", <<Dim(1, 30)>>),   "Any"),
      DataType("ARRAY_30_B",   ArrayDef("INT", <<Dim(1, 30)>>),   "Any"),
      DataType("ARRAY_30_30",  ArrayDef("INT", <<Dim(1, 30), Dim(1, 30)>>), "Any"),
      DataType("ARRAY_STRING_30", ArrayDef("STRING", <<Dim(1, 30)>>), "Any"),
      DataType("ARRAY_NEG",    ArrayDef("DINT", <<Dim(-5, 5)>>),  "Any"),
      DataType("PTR_INT",      PointerDef("INT"),  "Any"),
      DataType("PTR_REAL",     PointerDef("REAL"), "Any") }

TypeUniverse == get_index \cup UserTypes

InitTypes ==
    /\ left_type \in TypeUniverse
    /\ right_type \in TypeUniverse
    /\ bigger = NoType
    /\ tpc = "input"
    /\ same_class = "-"

\* one call get_bigger_type(left_type, right_type, &index)
CallGetBiggerType ==
    /\ tpc = "input"
    /\ bigger' = get_bigger_type(left_type, right_type, get_index)
    /\ tpc' = "returned"
    /\ UNCHANGED <<left_type, right_type, same_class>>

\* one call is_same_type_class(left_type.definition, right_type.definition, &index)
CallIsSameTypeClass ==
    /\ tpc = "input"
    /\ same_class' = IF is_same_type_class(left_type.definition, right_type.definition, get_index)
                     THEN "true" ELSE "false"
    /\ tpc' = "classified"
    /\ UNCHANGED <<left_type, right_type, bigger>>

IdleTypes ==
    /\ left_type = NoType
    /\ right_type = NoType
    /\ bigger = NoType
    /\ tpc = "idle"
    /\ same_class = "-"


(***************************************************************************)
(*                            BUILD PIPELINE                               *)
(***************************************************************************)

\* largest number of files (sources, includes, library headers) of a project
MaxUnits == 4

\* ---- the inputs: files by what they hold ------------------------------
SourceFiles   == {"main.st", "prog.st", "noret.st"}
IncludeFiles  == {"gen.st", "missing.st"}
LibraryNames  == {"libA", "libB"}
\* LibraryInformation::get_includes: the headers of a library
get_includes(lib) == IF lib = "libA" THEN <<"a.st">> ELSE <<"b.st">>

\* load_source fails for a file that cannot be read
Readable(f) == f # "missing.st"
\* the recoverable syntax diagnostics parse_file reports for a file
SyntaxDiagnostics(f) ==
    IF f = "b.st" THEN {[kind |-> "SyntaxError", at |-> f, severity |-> "error"]} ELSE {}
\* the top-level names a file declares
Declares(f) ==
    CASE f = "main.st"  -> <<"main">>
      [] f = "prog.st"  -> <<"mainProg">>
      [] f = "noret.st" -> <<"foo">>
      [] f = "gen.st"   -> <<"CONCAT_DATE">>
      [] f = "a.st"     -> <<"libFn">>
      [] f = "b.st"     -> <<"libFn">>
      [] OTHER          -> <<>>
\* the calls of the generic function CONCAT_DATE in a file, by inferred type
GenericCalls(f) ==
    CASE f = "main.st" -> <<"INT", "DINT", "INT">>
      [] f = "prog.st" -> <<"INT", "INT">>
      [] OTHER         -> <<>>
\* the functions whose declaration names no return type
FunctionsWithoutReturn(f) == IF f = "noret.st" THEN {"foo"} ELSE {}

\* compile_parameters.target
TargetLists == { <<>>, <<"x86_64">>, <<"x86_64", "aarch64">>, <<"aarch64", "x86_64">> }

\* ---- helpers ------------------------------------------------------------
InjectiveSeqs(S, n) ==
    UNION { { q \in [1..k -> S] : \A i, j \in 1..k : i # j => q[i] # q[j] } : k \in 0..n }

RECURSIVE Flatten(_)
Flatten(ss) == IF ss = <<>> THEN <<>> ELSE Head(ss) \o Flatten(Tail(ss))

SeqMap(Op(_), q) == [i \in 1..Len(q) |-> Op(q[i])]

Range(q) == { q[i] : i \in 1..Len(q) }

Count(q, x) == Cardinality({ i \in 1..Len(q) : q[i] = x })

\* position of the first element of q that satisfies P, 0 when there is none
FirstIndex(q, P(_)) ==
    IF \E i \in 1..Len(q) : P(q[i])
    THEN CHOOSE i \in 1..Len(q) : P(q[i]) /\ \A j \in 1..(i - 1) : ~P(q[j])
    ELSE 0

\* ---- Project ------------------------------------------------------------
LibraryHeaders(p) == Flatten(SeqMap(get_includes, p.libraries))

ProjectSize(p) == Len(p.sources) + Len(p.includes) + Len(LibraryHeaders(p))

Projects ==
    { p \in [sources   : InjectiveSeqs(SourceFiles, MaxUnits),
             includes  : InjectiveSeqs(IncludeFiles, MaxUnits),
             libraries : InjectiveSeqs(LibraryNames, MaxUnits)] :
        ProjectSize(p) <= MaxUnits }

\* ---- Index --------------------------------------------------------------
\* Index::default()
EmptyIndex == [imports |-> <<>>, symbols |-> <<>>, types |-> <<>>, implementations |-> <<>>]

\* keyed insertion: an entry whose name is present already is not added again
RECURSIVE KeyedExtend(_, _)
KeyedExtend(into, from) ==
    IF from = <<>> THEN into
    ELSE KeyedExtend(IF Head(from) \in Range(into) THEN into ELSE Append(into, Head(from)),
                     Tail(from))

\* Index::import: declarations are concatenated, implementations are keyed by name
Import(ix, other) ==
    [ix EXCEPT !.symbols = @ \o other.symbols,
               !.types = @ \o other.types,
               !.implementations = KeyedExtend(@, other.implementations)]

\* Index::register_type
register_type(ix, name) == [ix EXCEPT !.types = Append(@, name)]

\* index::visitor::visit(&unit): the per-unit index
visit(unit) ==
    [EmptyIndex EXCEPT !.symbols = Declares(unit.file),
                       !.implementations = KeyedExtend(<<>>, Declares(unit.file))]

\* builtins::parse_built_ins: the unit that declares the built-in functions
parse_built_ins == [file |-> "<builtins>", linkage |-> "External"]
BuiltinFunctions == <<"ADR", "REF">>
visit_built_ins == [EmptyIndex EXCEPT !.symbols = BuiltinFunctions,
                                      !.implementations = BuiltinFunctions]

\* the names get_builtin_types registers, in registration order
BuiltinTypeNames ==
    <<"VOID", "UINT1", "UINT8", "UINT16", "UINT32", "UINT64", "INT8", "INT16", "INT32",
      "INT64", "BOOL", "REAL32", "REAL64", "STRING", "WSTRING", "CHAR", "WCHAR">>

Event(kind, name) == [kind |-> kind, name |-> name]
Log(ix, kind, name) == [ix EXCEPT !.imports = Append(@, Event(kind, name))]


\* ---- ParsedProject::parse -----------------------------------------------
Unit(f, linkage) == [file |-> f, linkage |-> linkage]
InternalUnit(f) == Unit(f, "Internal")
ExternalUnit(f) == Unit(f, "External")

\* parse with the includes loaded ahead of the sources
ParseJobs_includes_first(p) ==
    SeqMap(ExternalUnit, p.includes)
        \o SeqMap(InternalUnit, p.sources)
        \o SeqMap(ExternalUnit, LibraryHeaders(p))

\* the files parse loads and parses, in call order, with the linkage it gives each
ParseJobs(p) ==
    SeqMap(InternalUnit, p.sources)
        \o SeqMap(ExternalUnit, p.includes)
        \o SeqMap(ExternalUnit, LibraryHeaders(p))

Unreadable(u) == ~Readable(u.file)
FileOf(u) == u.file
ParseReport(u) == [stage |-> "parse", unit |-> u.file, diags |-> SyntaxDiagnostics(u.file)]

Parse ==
    /\ pc = "start"
    /\ LET jobs   == ParseJobs(project)
           bad    == FirstIndex(jobs, Unreadable)
           tried  == IF bad = 0 THEN jobs ELSE SubSeq(jobs, 1, bad)
           parsed == IF bad = 0 THEN jobs ELSE SubSeq(jobs, 1, bad - 1)
       IN /\ loaded' = SeqMap(FileOf, tried)
          /\ reported' = reported \o SeqMap(ParseReport, parsed)
          /\ IF bad = 0
             THEN /\ units' = jobs
                  /\ stages' = Append(stages, "parse")
                  /\ pc' = "parsed"
                  /\ outcome' = outcome
             ELSE /\ units' = <<>>
                  /\ stages' = stages
                  /\ pc' = "done"
                  /\ outcome' = "io_read_error"
    /\ UNCHANGED <<entry, project, targets, index, taskDone, taskFailed, objects>>

\* ---- ParsedProject::index -----------------------------------------------
RECURSIVE ImportUnits(_, _)
ImportUnits(ix, us) ==
    IF us = <<>> THEN ix
    ELSE ImportUnits(Log(Import(ix, visit(Head(us))), "unit", Head(us).file), Tail(us))

RECURSIVE RegisterTypes(_, _)
RegisterTypes(ix, names) ==
    IF names = <<>> THEN ix
    ELSE RegisterTypes(Log(register_type(ix, Head(names)), "type", Head(names)), Tail(names))

ImportBuiltins(ix) == Log(Import(ix, visit_built_ins), "builtins", parse_built_ins.file)

\* the global index ParsedProject::index builds from the parsed units
index_units(us) ==
    ImportBuiltins(RegisterTypes(ImportUnits(EmptyIndex, us), BuiltinTypeNames))

IndexStage ==
    /\ pc = "parsed"
    /\ index' = index_units(units)
    /\ stages' = Append(stages, "index")
    /\ pc' = "indexed"
    /\ UNCHANGED <<entry, project, targets, loaded, units, reported, taskDone, taskFailed,
                   objects, outcome>>

\* ---- IndexedProject::annotate ---------------------------------------------
GenericName == "CONCAT_DATE"
\* the mangled name of an instance of a generic POU
Mangle(base, t) == base \o "__" \o t

\* TypeAnnotator::visit_unit: the new_index of one unit holds the instances its
\* calls need and the index does not have
visit_unit(ix, unit) ==
    LET calls   == GenericCalls(unit.file)
        wanted  == [i \in 1..Len(calls) |-> Mangle(GenericName, calls[i])]
        missing == SelectSeq(wanted, LAMBDA n : n \notin Range(ix.implementations))
    IN IF GenericName \in Range(ix.symbols)
       THEN [EmptyIndex EXCEPT !.implementations = KeyedExtend(<<>>, missing)]
       ELSE EmptyIndex

\* AnnotationMapImpl::import, for every unit in turn: the merged new_index
RECURSIVE MergeNewIndexes(_, _, _)
MergeNewIndexes(all, ix, us) ==
    IF us = <<>> THEN all
    ELSE MergeNewIndexes(Import(all, visit_unit(ix, Head(us))), ix, Tail(us))

\* annotate without the import of new_index into the index
annotate_index_without_new_index(ix, us) == Log(ix, "new_index", "-")

\* the index of the AnnotatedProject
annotate_index(ix, us) ==
    Log(Import(ix, MergeNewIndexes(EmptyIndex, ix, us)), "new_index", "-")

Annotate ==
    /\ pc = "indexed"
    /\ index' = annotate_index(index, units)
    /\ stages' = Append(stages, "annotate")
    /\ pc' = "annotated"
    /\ UNCHANGED <<entry, project, targets, loaded, units, reported, taskDone, taskFailed,
                   objects, outcome>>


\* ---- AnnotatedProject::validate -------------------------------------------
Diagnostic(kind, at) == [kind |-> kind, at |-> at, severity |-> "error"]

\* Validator::perform_global_validation: a name registered more than once
perform_global_validation(ix) ==
    { Diagnostic("GlobalNameConflict", n) :
        n \in { m \in Range(ix.symbols) \cup Range(ix.implementations) :
                  Count(ix.symbols, m) > 1 \/ Count(ix.implementations, m) > 1 } }

\* validation::pou::validate_function, for the functions of one unit
validate_unit(unit) ==
    { Diagnostic("FunctionReturnMissing", n) : n \in FunctionsWithoutReturn(unit.file) }

GlobalReport(ix) == [stage |-> "global", unit |-> "-", diags |-> perform_global_validation(ix)]
UnitReport(unit) == [stage |-> "unit", unit |-> unit.file, diags |-> validate_unit(unit)]

\* a diagnostics() that hands out the buffer and keeps what is in it
diagnostics_keeping_buffer(buffer) == [returned |-> buffer, buffer |-> buffer]

\* Validator::diagnostics: hands out the buffered diagnostics and empties the buffer
take_diagnostics(buffer) == [returned |-> buffer, buffer |-> {}]

\* the per unit loop of validate: visit_unit pushes to the buffer, then
\* diagnostician.handle(validator.diagnostics())
RECURSIVE validate_units(_, _)
validate_units(buffer, us) ==
    IF us = <<>> THEN <<>>
    ELSE LET taken == take_diagnostics(buffer \cup validate_unit(Head(us)))
         IN <<[UnitReport(Head(us)) EXCEPT !.diags = taken.returned]>>
                \o validate_units(taken.buffer, Tail(us))

\* the calls diagnostician.handle receives from validate, in order
validate_reports(ix, us) ==
    LET taken == take_diagnostics(perform_global_validation(ix))
    IN <<[GlobalReport(ix) EXCEPT !.diags = taken.returned]>>
          \o validate_units(taken.buffer, us)

\* a validate that registers in the index what it reports
Validate_registering ==
    /\ pc = "annotated"
    /\ entry = "compile"
    /\ reported' = reported \o validate_reports(index, units)
    /\ index' = register_type(index, "__validated")
    /\ stages' = Append(stages, "validate")
    /\ pc' = "validated"
    /\ UNCHANGED <<entry, project, targets, loaded, units, taskDone, taskFailed,
                   objects, outcome>>

\* a validate that drops the units it reported an error for
Validate_dropping_units ==
    /\ pc = "annotated"
    /\ entry = "compile"
    /\ reported' = reported \o validate_reports(index, units)
    /\ units' = SelectSeq(units, LAMBDA u : validate_unit(u) = {})
    /\ stages' = Append(stages, "validate")
    /\ pc' = "validated"
    /\ UNCHANGED <<entry, project, targets, loaded, index, taskDone, taskFailed,
                   objects, outcome>>

\* validate(&self, ..): the project is borrowed, not changed
Validate ==
    /\ pc = "annotated"
    /\ entry = "compile"
    /\ reported' = reported \o validate_reports(index, units)
    /\ stages' = Append(stages, "validate")
    /\ pc' = "validated"
    /\ UNCHANGED <<entry, project, targets, loaded, units, index, taskDone, taskFailed,
                   objects, outcome>>

HasErrorDiagnostic ==
    \E i \in 1..Len(reported) : \E d \in reported[i].diags : d.severity = "error"

\* ---- AnnotatedProject::codegen ----------------------------------------------
\* the targets codegen compiles each unit for
EffectiveTargets(tg) == IF tg = <<>> THEN <<"System">> ELSE tg

\* the emission tasks of codegen: one per unit and target
Tasks(us, tg) == (1..Len(us)) \X (1..Len(EffectiveTargets(tg)))

Object(unit, target) == [unit |-> unit.file, target |-> target]

\* collect() over tasks that compile each unit for the first target only
collect_objects_first_target(us, tg) ==
    [i \in 1..Len(us) |-> Object(us[i], EffectiveTargets(tg)[1])]

\* a collect that lists the objects target by target
collect_objects_by_target(us, tg) ==
    Flatten([j \in 1..Len(EffectiveTargets(tg)) |->
                [i \in 1..Len(us) |-> Object(us[i], EffectiveTargets(tg)[j])]])

\* collect(): the objects, unit by unit and target by target within a unit
collect_objects(us, tg) ==
    Flatten([i \in 1..Len(us) |->
                [j \in 1..Len(EffectiveTargets(tg)) |-> Object(us[i], EffectiveTargets(tg)[j])]])

\* compile with codegen called on the annotated project, ahead of validate
CodegenBegin_before_validate ==
    /\ pc = "annotated"
    /\ entry = "compile"
    /\ stages' = Append(stages, "emit")
    /\ \/ /\ pc' = "emitting"
          /\ outcome' = outcome
       \/ /\ targets # <<>>
          /\ pc' = "done"
          /\ outcome' = "codegen_error"
    /\ UNCHANGED <<entry, project, targets, loaded, units, index, reported, taskDone,
                   taskFailed, objects>>

\* ensure_compile_dirs, then the tasks are handed to the worker pool
CodegenBegin ==
    /\ pc = "validated"
    /\ entry = "compile"
    /\ stages' = Append(stages, "emit")
    /\ \/ /\ pc' = "emitting"
          /\ outcome' = outcome
       \/ /\ targets # <<>>          \* creating a target directory failed
          /\ pc' = "done"
          /\ outcome' = "codegen_error"
    /\ UNCHANGED <<entry, project, targets, loaded, units, index, reported, taskDone,
                   taskFailed, objects>>

\* one emission task: generate_module, persist, Object::try_from
RunTask(i, j) ==
    /\ pc = "emitting"
    /\ <<i, j>> \in Tasks(units, targets) \ taskDone
    /\ taskDone' = taskDone \cup {<<i, j>>}
    /\ \E ok \in BOOLEAN : taskFailed' = (taskFailed \/ ~ok)
    /\ overtaken' = (overtaken \/ \E t \in Tasks(units, targets) \ taskDone :
                                    t[1] < i \/ (t[1] = i /\ t[2] < j))
    /\ UNCHANGED <<entry, project, targets, pc, loaded, units, index, reported, stages,
                   objects, outcome>>

\* a collect that keeps the objects of the build when a task has failed
CodegenCollect_ignoring_failures ==
    /\ pc = "emitting"
    /\ taskFailed \/ taskDone = Tasks(units, targets)
    /\ objects' = collect_objects(units, targets)
    /\ outcome' = outcome
    /\ pc' = "generated"
    /\ UNCHANGED <<entry, project, targets, loaded, units, index, reported, stages,
                   taskDone, taskFailed>>

\* the collect of the task results: an Err as soon as one task failed
CodegenCollect ==
    /\ pc = "emitting"
    /\ taskFailed \/ taskDone = Tasks(units, targets)
    /\ IF taskFailed
       THEN /\ objects' = <<>>
            /\ outcome' = "codegen_error"
            /\ pc' = "done"
       ELSE /\ objects' = collect_objects(units, targets)
            /\ outcome' = outcome
            /\ pc' = "generated"
    /\ UNCHANGED <<entry, project, targets, loaded, units, index, reported, stages,
                   taskDone, taskFailed>>

\* compile, step 5: the argument of link is todo!()
Link ==
    /\ pc = "generated"
    /\ pc' = "done"
    /\ outcome' = "panic"
    /\ UNCHANGED <<entry, project, targets, loaded, units, index, reported, stages,
                   taskDone, taskFailed, objects>>

\* ---- AnnotatedProject::codegen_to_string ------------------------------------
ModuleText(unit) == Object(unit, "string")

\* the units are generated one after the other; the first failure ends the call
CodegenToString ==
    /\ pc = "annotated"
    /\ entry = "compile_to_string"
    /\ stages' = Append(stages, "emit")
    /\ \E bad \in 0..Len(units) :
          IF bad = 0
          THEN /\ taskDone' = (1..Len(units)) \X {1}
               /\ taskFailed' = FALSE
               /\ objects' = SeqMap(ModuleText, units)
               /\ outcome' = "ok"
          ELSE /\ taskDone' = (1..bad) \X {1}
               /\ taskFailed' = TRUE
               /\ objects' = <<>>
               /\ outcome' = "codegen_error"
    /\ pc' = "done"
    /\ UNCHANGED <<entry, project, targets, loaded, units, index, reported>>

\* ---- AnnotatedProject::codegen_to_single_module, as tests/runner.rs calls it --
\* reduce() visits every unit; the caller unwraps the Result and the Option
CodegenToSingleModule ==
    /\ pc = "annotated"
    /\ entry = "runner"
    /\ stages' = Append(stages, "emit")
    /\ taskDone' = (1..Len(units)) \X {1}
    /\ \E ok \in BOOLEAN :
          IF ok /\ units # <<>>
          THEN /\ taskFailed' = FALSE
               /\ objects' = <<[unit |-> "<merged>", target |-> "module"]>>
               /\ outcome' = "ok"
          ELSE /\ taskFailed' = ~ok
               /\ objects' = <<>>
               /\ outcome' = "panic"
    /\ pc' = "done"
    /\ UNCHANGED <<entry, project, targets, loaded, units, index, reported>>

(***************************************************************************)
(*                 GLOBAL VALIDATION (parse_and_validate)                  *)
(***************************************************************************)

\* largest number of top-level declarations of a validated source
MaxDecls == 3

DeclKinds == {"Function", "Program", "FunctionBlock", "Type", "Global"}
DeclNames == {"foo", "bar"}

\* the declarations a source can hold: the ones the user wrote, and the types
\* the indexer and the annotator generate (pointer types for &x, VAR_OUTPUT,
\* VAR_IN_OUT, {ref} VAR_INPUT; string types for literals), from either file
UserDecls == [kind : DeclKinds, name : DeclNames, auto : {FALSE}, file : {"a.st"}]
AutoDecls == [kind : {"Type"}, name : {"__foo_x"}, auto : {TRUE}, file : {"a.st", "b.st"}]

DeclLists == UNION { [1..n -> UserDecls \cup AutoDecls] : n \in 0..MaxDecls }

\* the groups of symbols whose names must be unique, in validation order
Clusters == <<"variable", "datatype", "callable", "pou">>

ClusterText(cluster) ==
    CASE cluster = "variable" -> "Ambiguous global variable."
      [] cluster = "datatype" -> "Ambiguous datatype."
      [] cluster = "callable" -> "Ambiguous callable symbol."
      [] OTHER                -> ""

\* membership of a declaration in a group, with every POU counted as a datatype
InCluster_pous_are_datatypes(cluster, d) ==
    CASE cluster = "variable" -> d.kind \in {"Global", "Program"}
      [] cluster = "datatype" ->
            \/ d.kind = "Type" /\ ~d.auto
            \/ d.kind \in {"Function", "Program", "FunctionBlock"}
      [] cluster = "callable" -> d.kind \in {"Function", "Program"}
      [] OTHER                -> d.kind \in {"Function", "Program", "FunctionBlock"}

\* membership of a declaration in a group, with the generated types counted too
InCluster_with_generated(cluster, d) ==
    CASE cluster = "variable" -> d.kind \in {"Global", "Program"}
      [] cluster = "datatype" ->
            \/ d.kind = "Type"
            \/ d.kind = "FunctionBlock"
      [] cluster = "callable" -> d.kind \in {"Function", "Program"}
      [] OTHER                -> d.kind \in {"Function", "Program", "FunctionBlock"}

\* membership of a declaration in a group: a program is also a global instance
\* and a function block is also a datatype; a function is neither, and a
\* program is no datatype
InCluster(cluster, d) ==
    CASE cluster = "variable" -> d.kind \in {"Global", "Program"}
      [] cluster = "datatype" ->
            \/ d.kind = "Type" /\ ~d.auto
            \/ d.kind = "FunctionBlock"
      [] cluster = "callable" -> d.kind \in {"Function", "Program"}
      [] OTHER                -> d.kind \in {"Function", "Program", "FunctionBlock"}

\* the positions of the other declarations of the group that carry the name of ds[i]
OtherLocations(ds, cluster, i) ==
    SelectSeq([j \in 1..Len(ds) |-> j],
              LAMBDA j : j # i /\ ds[j].name = ds[i].name /\ InCluster(cluster, ds[j]))

\* Diagnostic::global_name_conflict_with_text
global_name_conflict(name, at, others, text) ==
    [name |-> name, at |-> at, others |-> others, text |-> text]

\* check_uniqueness_of_cluster: one diagnostic for every declaration of the group
\* whose name another declaration of the group carries
check_uniqueness_of_cluster(ds, cluster) ==
    LET hit == SelectSeq([i \in 1..Len(ds) |-> i],
                         LAMBDA i : /\ InCluster(cluster, ds[i])
                                    /\ OtherLocations(ds, cluster, i) # <<>>)
    IN [k \in 1..Len(hit) |->
           global_name_conflict(ds[hit[k]].name, hit[k],
                                OtherLocations(ds, cluster, hit[k]), ClusterText(cluster))]

\* Validator::perform_global_validation on the declarations of an index
validate_unique_symbols(ds) ==
    Flatten([c \in 1..Len(Clusters) |-> check_uniqueness_of_cluster(ds, Clusters[c])])

\* parse_and_validate that leaves out perform_global_validation
parse_and_validate_without_global(ds) == <<>>

\* parse_and_validate: the declarations of the universe have empty bodies, for
\* which validator.visit_unit finds nothing
parse_and_validate(ds) == validate_unique_symbols(ds)

InitValidation ==
    /\ decls \in DeclLists
    /\ diagnostics = <<>>
    /\ vpc = "input"

ParseAndValidate ==
    /\ vpc = "input"
    /\ diagnostics' = parse_and_validate(decls)
    /\ vpc' = "validated"
    /\ UNCHANGED decls

IdleValidation ==
    /\ decls = <<>>
    /\ diagnostics = <<>>
    /\ vpc = "idle"

\* none of the functions modelled one call at a time is running
(***************************************************************************)
(*              ARRAY ACCESS VALIDATION (parse_and_validate)               *)
(***************************************************************************)

MaxAccessDims == 2

\* the dimensions of array_validation_test.rs: multi and nested [0..1, 2..3],
\* arr [0..1], negative_start [-2..2], negative [-3..-1], const [start..end],
\* and one whose end names a constant that cannot be resolved
AccessDimensions ==
    { Dim(0, 1), Dim(2, 3), Dim(-2, 2), Dim(-3, -1),
      Dimension(ConstExpression("start"), ConstExpression("end")),
      Dimension(LiteralInteger(0), ConstExpression("undefined")) }

\* the literal indexes written in an access
AccessIndexes == -4 .. 4

SeqsOfLen(S, n) == [1..n -> S]

\* Diagnostic::incompatible_array_access_range(range, location): `at` is the
\* position of the index expression within the access
incompatible_array_access_range(range, at) ==
    [kind |-> "IncompatibleArrayAccessRange", range |-> range, at |-> at]

\* the range a dimension admits, as the diagnostic prints it
RangeOf(dim) == <<as_int_value(dim.start_offset).value, as_int_value(dim.end_offset).value>>

\* the check of one literal index against its dimension; a dimension whose
\* range cannot be resolved is left alone
validate_array_access_dimension(dim, idx, at) ==
    LET range == get_range_inclusive(dim)
    IN IF range.ok /\ idx \notin range.value
       THEN <<incompatible_array_access_range(RangeOf(dim), at)>>
       ELSE <<>>

\* the statement validator on an access a[i1, ..., in] or a[i1]...[in]: each
\* index is checked against the dimension at its own position
RECURSIVE validate_array_access_from(_, _, _)
validate_array_access_from(dims, idxs, k) ==
    IF k > Len(dims) THEN <<>>
    ELSE validate_array_access_dimension(dims[k], idxs[k], k)
         \o validate_array_access_from(dims, idxs, k + 1)

validate_array_access(dims, idxs) == validate_array_access_from(dims, idxs, 1)

InitAccess ==
    /\ \E n \in 1..MaxAccessDims :
          /\ access_dims \in SeqsOfLen(AccessDimensions, n)
          /\ access_idx \in SeqsOfLen(AccessIndexes, n)
    /\ access_diags = <<>>
    /\ apc = "input"

\* parse_and_validate on a program that holds the one access
ValidateArrayAccess ==
    /\ apc = "input"
    /\ access_diags' = validate_array_access(access_dims, access_idx)
    /\ apc' = "validated"
    /\ UNCHANGED <<access_dims, access_idx>>

IdleAccess ==
    /\ access_dims = <<>>
    /\ access_idx = <<>>
    /\ access_diags = <<>>
    /\ apc = "idle"

(***************************************************************************)
(*                 CONSTANT EVALUATOR (evaluate_constants)                 *)
(***************************************************************************)

MaxConsts == 3

\* the names of the global constants, in declaration order
ConstNames == <<"a", "b", "c", "d", "e">>

\* the initializers: a literal, a reference to a constant (declared or not),
\* and a division of a constant by a literal
LiteralExpr(v)     == [op |-> "literal", name |-> "-", value |-> v]
ReferenceExpr(n)   == [op |-> "reference", name |-> n, value |-> 0]
DivisionExpr(n, v) == [op |-> "division", name |-> n, value |-> v]

ConstInitializers ==
    {LiteralExpr(v) : v \in {1, 2}}
    \cup {ReferenceExpr(n) : n \in {"a", "b", "c", "undefined"}}
    \cup {DivisionExpr(n, v) : n \in {"a", "b"}, v \in {0, 2}}

Unresolved(e) == [expr |-> e, state |-> "Unresolved", value |-> 0]

\* the value a reference folds to: known once the constant it names is resolved
Referenced(store, n) ==
    IF n \in DOMAIN store /\ store[n].state = "Resolved" THEN Ok(store[n].value) ELSE Err

\* one attempt to fold an expression: "literal" with its value, "pending" when
\* a constant it names is not resolved, "error" for a division by zero
evaluate(store, e) ==
    CASE e.op = "literal"   -> [outcome |-> "literal", value |-> e.value]
      [] e.op = "reference" ->
            IF Referenced(store, e.name).ok
            THEN [outcome |-> "literal", value |-> Referenced(store, e.name).value]
            ELSE [outcome |-> "pending", value |-> 0]
      [] e.op = "division"  ->
            IF e.value = 0 THEN [outcome |-> "error", value |-> 0]
            ELSE IF Referenced(store, e.name).ok
            THEN [outcome |-> "literal", value |-> Referenced(store, e.name).value \div e.value]
            ELSE [outcome |-> "pending", value |-> 0]

\* one iteration: walk the unresolved ConstIds in order and attempt to fold each
RECURSIVE walk(_, _, _, _)
walk(store, ids, left, failed) ==
    IF ids = <<>> THEN [store |-> store, remaining |-> left, failed |-> failed]
    ELSE LET id == Head(ids)
             r  == evaluate(store, store[id].expr)
         IN CASE r.outcome = "literal" ->
                    walk([store EXCEPT ![id] = [@ EXCEPT !.state = "Resolved", !.value = r.value]],
                         Tail(ids), left, failed)
              [] r.outcome = "error" ->
                    walk([store EXCEPT ![id] = [@ EXCEPT !.state = "Unresolvable"]],
                         Tail(ids), left, failed \cup {id})
              [] OTHER -> walk(store, Tail(ids), Append(left, id), failed)

\* an end of the fixed point that drops what is left over
return_unresolvables_without_remaining(failed, left) == failed

\* the end of the fixed point: what could not be folded is returned
return_unresolvables(failed, left) == failed \cup Range(left)

InitEvaluator ==
    /\ \E n \in 1..MaxConsts :
          /\ remaining = SubSeq(ConstNames, 1, n)
          /\ \E inits \in [1..n -> ConstInitializers] :
                const_expressions =
                    [id \in {ConstNames[i] : i \in 1..n} |->
                        Unresolved(inits[CHOOSE i \in 1..n : ConstNames[i] = id])]
    /\ unresolvables = {}
    /\ epc = "evaluating"

\* an iteration that makes progress
Iterate ==
    /\ epc = "evaluating"
    /\ LET w == walk(const_expressions, remaining, <<>>, {})
       IN /\ Len(w.remaining) < Len(remaining)
          /\ const_expressions' = w.store
          /\ remaining' = w.remaining
          /\ unresolvables' = unresolvables \cup w.failed
    /\ UNCHANGED epc

\* an iteration without progress ends the evaluation
Finish ==
    /\ epc = "evaluating"
    /\ LET w == walk(const_expressions, remaining, <<>>, {})
       IN /\ Len(w.remaining) = Len(remaining)
          /\ unresolvables' = return_unresolvables(unresolvables, remaining)
    /\ epc' = "done"
    /\ UNCHANGED <<const_expressions, remaining>>

IdleEvaluator ==
    /\ const_expressions = <<>>
    /\ remaining = <<>>
    /\ unresolvables = {}
    /\ epc = "idle"

(***************************************************************************)
(*                ARRAY SIZES (get_size and get_length)                    *)
(***************************************************************************)

MaxDimensions == 2

\* a dimension of 2^26 elements
BigDimension == Dim(0, 67108863)

\* the dimensions of the arrays that are sized
SizeDimensions ==
    { Dim(0, 1), Dim(-1, 0), Dim(1, 1), Dim(1, 0),
      Dimension(ConstExpression("start"), ConstExpression("end")),
      BigDimension }

\* the index of array_size_nested_tests: the built-in types and a registered array
SizeIndex == get_index \cup {DataType("ARRAY_2", ArrayDef("INT", <<Dim(1, 2)>>), "Any")}

ElementTypes == {"INT", "DINT", "ARRAY_2"}

\* arrays with at most one big dimension, so that every number of bytes stays
\* below 2^31
SizedArrays ==
    { DataType("ARRAY", ArrayDef(inner, dims), "Any") :
        inner \in ElementTypes,
        dims \in { d \in UNION {SeqsOfLen(SizeDimensions, n) : n \in 1..MaxDimensions} :
                     Cardinality({i \in DOMAIN d : d[i] = BigDimension}) <= 1 } }

\* the bounds of the dimensions that are measured
LengthBounds ==
    {LiteralInteger(v) : v \in {-3, -1, 0, 1, 2, 20}}
    \cup {ConstExpression(id) : id \in {"start", "end", "undefined"}}

LengthDimensions == {Dimension(s, e) : s \in LengthBounds, e \in LengthBounds}

\* inner_size * element_count does not fit a u32, here or in the element type
RECURSIVE multiplication_overflows(_, _)
multiplication_overflows(def, ix) ==
    /\ def.kind = "Array"
    /\ \/ multiplication_overflows(get_type_information_or_void(ix, def.inner), ix)
       \/ get_size(get_type_information_or_void(ix, def.inner), ix) * element_count(def)
              >= U32_BYTES

InitSizes ==
    /\ size_type \in SizedArrays
    /\ length_dim \in LengthDimensions
    /\ size_result = [panicked |-> FALSE, bytes |-> 0]
    /\ length_result = [ok |-> FALSE, value |-> as_u32(0)]
    /\ spc = "input"

\* one call size_type.get_definition().get_size(&index): a build with overflow
\* checks panics at a multiplication that overflows, a build without them wraps
CallGetSize ==
    /\ spc = "input"
    /\ \E overflow_checks \in BOOLEAN :
          size_result' =
              IF overflow_checks /\ multiplication_overflows(size_type.definition, SizeIndex)
              THEN [panicked |-> TRUE, bytes |-> 0]
              ELSE [panicked |-> FALSE, bytes |-> get_size(size_type.definition, SizeIndex)]
    /\ spc' = "sized"
    /\ UNCHANGED <<size_type, length_dim, length_result>>

\* one call length_dim.get_length(&index)
CallGetLength ==
    /\ spc = "input"
    /\ length_result' = get_length(length_dim)
    /\ spc' = "measured"
    /\ UNCHANGED <<size_type, size_result, length_dim>>

IdleSizes ==
    /\ size_type = NoType
    /\ size_result = [panicked |-> FALSE, bytes |-> 0]
    /\ length_dim = Dim(0, 0)
    /\ length_result = [ok |-> FALSE, value |-> as_u32(0)]
    /\ spc = "idle"

(***************************************************************************)
(*          LITERAL TYPES (get_literal_actual_signed_type_name)            *)
(***************************************************************************)

MaxOffset == 2

\* An i128 is written sign * 2^exp + off with a small offset, or as the offset
\* alone (sign = 0, exp = 0): the values next to the bounds of the integer types
Num(sign, exp, off) == [sign |-> sign, exp |-> exp, off |-> off]

\* the powers of two are further apart than any two offsets, so the order of
\* two values is the order of their powers, then of their offsets
Leq(a, b) ==
    \/ a.sign * a.exp < b.sign * b.exp
    \/ a.sign * a.exp = b.sign * b.exp /\ a.off <= b.off

\* <$t>::MIN and <$t>::MAX
MIN(t) ==
    CASE t = "i8" -> Num(-1, 7, 0) [] t = "i16" -> Num(-1, 15, 0)
      [] t = "i32" -> Num(-1, 31, 0) [] t = "i64" -> Num(-1, 63, 0)
      [] OTHER -> Num(0, 0, 0)

MAX(t) ==
    CASE t = "i8" -> Num(1, 7, -1) [] t = "i16" -> Num(1, 15, -1)
      [] t = "i32" -> Num(1, 31, -1) [] t = "i64" -> Num(1, 63, -1)
      [] t = "u8" -> Num(1, 8, -1) [] t = "u16" -> Num(1, 16, -1)
      [] t = "u32" -> Num(1, 32, -1) [] t = "u64" -> Num(1, 64, -1)

\* is_covered_by with the upper bound left out
is_covered_by_below_max(t, e) == Leq(MIN(t), e) /\ Leq(e, MAX(t)) /\ e # MAX(t)

\* macro is_covered_by
is_covered_by(t, e) == Leq(MIN(t), e) /\ Leq(e, MAX(t))

\* AstLiteral::get_literal_actual_signed_type_name, for AstLiteral::Integer: the
\* arms of the match in their order
get_literal_actual_signed_type_name(value, signed) ==
    IF value = Num(0, 0, 0) \/ value = Num(0, 0, 1) THEN "BOOL"
    ELSE IF signed /\ is_covered_by("i8", value) THEN "SINT"
    ELSE IF signed /\ is_covered_by("i16", value) THEN "INT"
    ELSE IF signed /\ is_covered_by("i32", value) THEN "DINT"
    ELSE IF signed /\ is_covered_by("i64", value) THEN "LINT"
    ELSE IF ~signed /\ is_covered_by("u8", value) THEN "USINT"
    ELSE IF ~signed /\ is_covered_by("u16", value) THEN "UINT"
    ELSE IF ~signed /\ is_covered_by("u32", value) THEN "UDINT"
    ELSE IF ~signed /\ is_covered_by("u64", value) THEN "ULINT"
    ELSE "VOID"

\* the integer literals: the small ones and those next to a power of two
LiteralValues ==
    {Num(0, 0, d) : d \in -MaxOffset..MaxOffset}
    \cup {Num(s, k, d) : s \in {-1, 1}, k \in {7, 8, 15, 16, 31, 32, 63, 64},
                         d \in -MaxOffset..MaxOffset}

\* the hint of the consumer: the type of the variable assigned to, or none
LiteralHints == {"-", "BOOL", "SINT", "DINT", "UINT"}

InitLiterals ==
    /\ literal_value \in LiteralValues
    /\ literal_signed \in BOOLEAN
    /\ literal_hint \in LiteralHints
    /\ literal_type = "-"
    /\ lpc = "input"

\* one call literal.get_literal_actual_signed_type_name(signed)
CallGetLiteralType ==
    /\ lpc = "input"
    /\ literal_type' = get_literal_actual_signed_type_name(literal_value, literal_signed)
    /\ lpc' = "typed"
    /\ UNCHANGED <<literal_value, literal_signed, literal_hint>>

IdleLiterals ==
    /\ literal_value = Num(0, 0, 0)
    /\ literal_signed = FALSE
    /\ literal_hint = "-"
    /\ literal_type = "-"
    /\ lpc = "idle"

(***************************************************************************)
(*                OUTPUT OBJECTS (Object::try_from)                        *)
(***************************************************************************)

MaxNameParts == 3

\* what stands between the dots of a file name: "out.o" is <<"out", "o">>,
\* ".hidden" is <<"", "hidden">>, "out." is <<"out", "">>
NameParts == {"", "out", "o", "bc", "ll", "ir", "so", "a", "st", "exe"}

FileNames == UNION {SeqsOfLen(NameParts, n) : n \in 1..MaxNameParts}

\* Path::extension of a path with this file name (std): None if the name is
\* "..", has no dot, or begins with its only dot; else what follows the last dot
extension(name) ==
    IF \/ name = <<"", "", "">>
       \/ Len(name) = 1
       \/ Len(name) = 2 /\ name[1] = ""
    THEN "None"
    ELSE name[Len(name)]

\* Object::try_from(&Path)
try_from(name) ==
    CASE extension(name) = "o"    -> [ok |-> TRUE, kind |-> "Default"]
      [] extension(name) = "bc"   -> [ok |-> TRUE, kind |-> "Bitcode"]
      [] extension(name) = "ir"   -> [ok |-> TRUE, kind |-> "IR"]
      [] extension(name) = "so"   -> [ok |-> TRUE, kind |-> "Shared"]
      [] extension(name) = "a"    -> [ok |-> TRUE, kind |-> "Archive"]
      [] extension(name) = "None" -> [ok |-> TRUE, kind |-> "Executable"]
      [] OTHER                    -> [ok |-> FALSE, kind |-> "GeneralError"]

InitObjects ==
    /\ object_path \in FileNames
    /\ object_result = [ok |-> FALSE, kind |-> "-"]
    /\ opc = "input"

\* one call Object::try_from(path)
CallObjectTryFrom ==
    /\ opc = "input"
    /\ object_result' = try_from(object_path)
    /\ opc' = "returned"
    /\ UNCHANGED object_path

IdleObjects ==
    /\ object_path = <<>>
    /\ object_result = [ok |-> FALSE, kind |-> "-"]
    /\ opc = "idle"

(***************************************************************************)
(*              PROJECT DESCRIPTOR (Project::from_config)                  *)
(***************************************************************************)

MaxConfigFiles == 2

\* PathBuf: absolute or relative, and its components
AbsPath(parts) == [absolute |-> TRUE, parts |-> parts]
RelPath(parts) == [absolute |-> FALSE, parts |-> parts]

\* Path::join: an absolute argument replaces the base
join(base, path) ==
    IF path.absolute THEN path
    ELSE [absolute |-> base.absolute, parts |-> base.parts \o path.parts]

\* Path::parent: None for the root and for the empty path
parent(path) ==
    IF path.parts = <<>> THEN [some |-> FALSE, path |-> path]
    ELSE [some |-> TRUE,
          path |-> [path EXCEPT !.parts = SubSeq(path.parts, 1, Len(path.parts) - 1)]]

\* the file a path names when it is opened: a relative path is taken from the
\* current directory of the process
Opened(cwd, path) == join(cwd, path)

\* glob(path) for a path without wildcards: the path itself if the file exists
glob(cwd, fs, path) == IF Opened(cwd, path) \in fs THEN <<path>> ELSE <<>>

\* resolve_file_paths
RECURSIVE resolve_file_paths(_, _, _)
resolve_file_paths(cwd, fs, inputs) ==
    IF inputs = <<>> THEN <<>>
    ELSE glob(cwd, fs, Head(inputs)) \o resolve_file_paths(cwd, fs, Tail(inputs))

\* ProjectConfig::to_resolved, which Project::from_config does not call
to_resolved(cfg, root) ==
    [files |-> [i \in DOMAIN cfg.files |-> join(root, cfg.files[i])],
     libraries |-> [l \in DOMAIN cfg.libraries |->
        [cfg.libraries[l] EXCEPT
            !.path = join(root, @),
            !.include_path = [i \in DOMAIN @ |-> join(root, @[i])]]]]

\* read_dir(lib_path.join(arch)) and the try_into of each item, for the one
\* architecture of a library: an Err if the directory is missing or an item
\* has an unknown extension
LibraryObjects(lib) ==
    IF ~lib.dir_exists THEN [ok |-> FALSE, objects |-> <<>>]
    ELSE IF \E i \in DOMAIN lib.items : ~try_from(lib.items[i]).ok
    THEN [ok |-> FALSE, objects |-> <<>>]
    ELSE [ok |-> TRUE, objects |-> [i \in DOMAIN lib.items |-> try_from(lib.items[i]).kind]]

\* the LibraryInformation of one entry of libraries
LibraryInformation(config, cwd, fs, conf) ==
    [location |-> IF parent(config).some THEN join(parent(config).path, conf.path)
                  ELSE conf.path,
     objects |-> LibraryObjects(conf).objects,
     headers |-> resolve_file_paths(cwd, fs, conf.include_path)]

\* Project::from_config, after ProjectConfig::from_file has read the descriptor
from_config(config, cwd, fs, cfg) ==
    IF \E l \in DOMAIN cfg.libraries : ~LibraryObjects(cfg.libraries[l]).ok
    THEN [ok |-> FALSE, location |-> RelPath(<<>>), sources |-> <<>>, libraries |-> <<>>]
    ELSE [ok |-> TRUE,
          location |-> IF parent(config).some THEN parent(config).path ELSE cwd,
          sources |-> resolve_file_paths(cwd, fs, cfg.files),
          libraries |-> [l \in DOMAIN cfg.libraries |->
                            LibraryInformation(config, cwd, fs, cfg.libraries[l])]]

Directories == {AbsPath(<<"proj">>), AbsPath(<<"work">>)}

\* the descriptors: /proj/plc.json, and plc.json in the current directory
ConfigPaths == {AbsPath(<<"proj", "plc.json">>), RelPath(<<"plc.json">>)}

\* the paths written in "files" and in "include_path"
ConfigFiles == {RelPath(<<"main.st">>), AbsPath(<<"proj", "main.st">>), RelPath(<<"lib.h">>)}

\* the files that may exist
FileCandidates ==
    {AbsPath(<<"proj", "main.st">>), AbsPath(<<"work", "main.st">>),
     AbsPath(<<"proj", "lib.h">>), AbsPath(<<"work", "lib.h">>)}

LibraryConfigs ==
    [path : {RelPath(<<"lib">>), AbsPath(<<"opt", "lib">>)},
     include_path : {<<>>, <<RelPath(<<"lib.h">>)>>},
     dir_exists : BOOLEAN,
     items : {<<>>, <<(<<"lib", "so">>)>>, <<(<<"notes", "txt">>)>>}]

ProjectConfigs ==
    [files : UNION {SeqsOfLen(ConfigFiles, n) : n \in 0..MaxConfigFiles},
     libraries : {<<>>} \cup {<<l>> : l \in LibraryConfigs}]

NoProject == [ok |-> FALSE, location |-> RelPath(<<>>), sources |-> <<>>, libraries |-> <<>>]

InitConfig ==
    /\ config_path \in ConfigPaths
    /\ current_dir \in Directories
    /\ file_system \in SUBSET FileCandidates
    /\ project_config \in ProjectConfigs
    /\ config_result = NoProject
    /\ cpc = "input"

\* one call Project::from_config(&config)
CallFromConfig ==
    /\ cpc = "input"
    /\ config_result' = from_config(config_path, current_dir, file_system, project_config)
    /\ cpc' = "returned"
    /\ UNCHANGED <<config_path, current_dir, file_system, project_config>>

IdleConfig ==
    /\ config_path = RelPath(<<>>)
    /\ current_dir = RelPath(<<>>)
    /\ file_system = {}
    /\ project_config = [files |-> <<>>, libraries |-> <<>>]
    /\ config_result = NoProject
    /\ cpc = "idle"

(***************************************************************************)
(* THE ID PROVIDER (lexer::IdProvider)                                     *)
(***************************************************************************)
\* ids handed out in one build
MaxIds == 6

\* the calls of one build that are given a clone of the id provider
\* (parse_file, pre_process, parse_built_ins, visit_unit) and the call that is
\* given one id taken by annotate itself (AstAnnotations::new)
IdCalls == {"parse_file", "pre_process", "parse_built_ins", "visit_unit",
            "AstAnnotations::new"}

\* a next_id that hands out the counter and leaves it
next_id_without_increment(counter) == [id |-> counter, counter |-> counter]

\* IdProvider::next_id: fetch_add(1) on the shared counter, one atomic step
next_id(counter) == [id |-> counter, counter |-> counter + 1]

\* IdProvider::default()
InitIds ==
    /\ current_id = 1
    /\ node_ids = [c \in IdCalls |-> <<>>]

\* one call takes an id; the calls interleave in every order
NextId(c) ==
    /\ current_id <= MaxIds
    /\ c = "AstAnnotations::new" => node_ids[c] = <<>>
    /\ LET got == next_id(current_id)
       IN /\ node_ids' = [node_ids EXCEPT ![c] = Append(@, got.id)]
          /\ current_id' = got.counter

IdleIds ==
    /\ current_id = 0
    /\ node_ids = <<>>

(***************************************************************************)
(* VALIDATION OF A POU (validation/pou.rs)                                 *)
(***************************************************************************)
PouTypes == {"Program", "Function", "FunctionBlock", "Action", "Class", "Method"}
PouNames == {"foo", "bar"}
None == "None"
ReturnTypeNames == {"INT", "BOOL"}

\* Index::find_return_type
find_return_type(ix, name) == ix[name]

function_return_missing(p) == [kind |-> "FunctionReturnMissing", at |-> p.name]

\* validate_function: functions must have a return type
validate_function(diags, p, ix) ==
    IF find_return_type(ix, p.name) = None
    THEN Append(diags, function_return_missing(p))
    ELSE diags

\* a validate_pou that asks every kind of POU for a return type
validate_pou_of_every_kind(diags, p, ix) == validate_function(diags, p, ix)

validate_pou(diags, p, ix) ==
    IF p.pou_type = "Function" THEN validate_function(diags, p, ix) ELSE diags

InitPou ==
    /\ pou \in [pou_type : PouTypes, name : PouNames]
    /\ return_types \in [PouNames -> ReturnTypeNames \cup {None}]
    /\ pou_diagnostics = <<>>
    /\ ppc = "input"

\* visit_pou, for a POU without variable blocks
VisitPou ==
    /\ ppc = "input"
    /\ pou_diagnostics' = validate_pou(pou_diagnostics, pou, return_types)
    /\ ppc' = "validated"
    /\ UNCHANGED <<pou, return_types>>

IdlePou ==
    /\ pou = [pou_type |-> "Program", name |-> "foo"]
    /\ return_types = <<>>
    /\ pou_diagnostics = <<>>
    /\ ppc = "idle"

IdleRest == IdleObjects /\ IdleConfig /\ IdleIds /\ IdlePou

IdleUnits == IdleValidation /\ IdleAccess /\ IdleEvaluator /\ IdleSizes /\ IdleLiterals
             /\ IdleRest

\* ---- the drivers ----------------------------------------------------------
\* compile (lib.rs), compile_to_string (tests.rs), compile (tests/runner.rs)
Init ==
    /\ entry \in {"compile", "compile_to_string", "runner"}
    /\ project \in Projects
    /\ entry = "compile_to_string" => project.libraries = <<>>
    /\ entry = "runner" => project.libraries = <<>> /\ project.includes = <<>>
    /\ targets \in TargetLists
    /\ entry # "compile" => targets = <<>>
    /\ pc = "start"
    /\ loaded = <<>>
    /\ units = <<>>
    /\ index = EmptyIndex
    /\ reported = <<>>
    /\ stages = <<>>
    /\ taskDone = {}
    /\ taskFailed = FALSE
    /\ overtaken = FALSE
    /\ objects = <<>>
    /\ outcome = "running"
    /\ IdleTypes
    /\ IdleUnits

Next ==
    \/ /\ Parse                 /\ UNCHANGED <<overtaken, tvars, uvars>>
    \/ /\ IndexStage            /\ UNCHANGED <<overtaken, tvars, uvars>>
    \/ /\ Annotate              /\ UNCHANGED <<overtaken, tvars, uvars>>
    \/ /\ Validate              /\ UNCHANGED <<overtaken, tvars, uvars>>
    \/ /\ CodegenBegin          /\ UNCHANGED <<overtaken, tvars, uvars>>
    \/ /\ \E i \in 1..Len(units), j \in 1..Len(EffectiveTargets(targets)) : RunTask(i, j)
       /\ UNCHANGED <<tvars, uvars>>
    \/ /\ CodegenCollect        /\ UNCHANGED <<overtaken, tvars, uvars>>
    \/ /\ Link                  /\ UNCHANGED <<overtaken, tvars, uvars>>
    \/ /\ CodegenToString       /\ UNCHANGED <<overtaken, tvars, uvars>>
    \/ /\ CodegenToSingleModule /\ UNCHANGED <<overtaken, tvars, uvars>>

Spec == Init /\ [][Next]_vars

\* ---- get_bigger_type on every pair of types -------------------------------
IdlePipeline ==
    /\ entry = "none"
    /\ project = [sources |-> <<>>, includes |-> <<>>, libraries |-> <<>>]
    /\ targets = <<>>
    /\ pc = "idle"
    /\ loaded = <<>>
    /\ units = <<>>
    /\ index = EmptyIndex
    /\ reported = <<>>
    /\ stages = <<>>
    /\ taskDone = {}
    /\ taskFailed = FALSE
    /\ overtaken = FALSE
    /\ objects = <<>>
    /\ outcome = "idle"

InitT == InitTypes /\ IdlePipeline /\ IdleUnits

NextT ==
    \/ CallGetBiggerType /\ UNCHANGED <<pvars, uvars>>
    \/ CallIsSameTypeClass /\ UNCHANGED <<pvars, uvars>>

SpecTypes == InitT /\ [][NextT]_vars

\* ---- parse_and_validate on every list of declarations ----------------------
InitV == InitValidation /\ IdlePipeline /\ IdleTypes /\ IdleAccess /\ IdleEvaluator /\ IdleSizes
         /\ IdleLiterals /\ IdleRest

NextV == ParseAndValidate /\ UNCHANGED <<pvars, tvars, avars, evars, svars, lvars, rvars>>

SpecValidate == InitV /\ [][NextV]_vars

\* ---- parse_and_validate on every array access -------------------------------
InitA == InitAccess /\ IdlePipeline /\ IdleTypes /\ IdleValidation /\ IdleEvaluator /\ IdleSizes
         /\ IdleLiterals /\ IdleRest

NextA == ValidateArrayAccess /\ UNCHANGED <<pvars, tvars, gvars, evars, svars, lvars, rvars>>

SpecArrayAccess == InitA /\ [][NextA]_vars

\* ---- evaluate_constants on every store of constants --------------------------
InitE == InitEvaluator /\ IdlePipeline /\ IdleTypes /\ IdleValidation /\ IdleAccess /\ IdleSizes
         /\ IdleLiterals /\ IdleRest

NextE ==
    \/ Iterate /\ UNCHANGED <<pvars, tvars, gvars, avars, svars, lvars, rvars>>
    \/ Finish /\ UNCHANGED <<pvars, tvars, gvars, avars, svars, lvars, rvars>>

\* the loop of evaluate_constants runs on: nothing else can hold an iteration back
SpecEvaluate == InitE /\ [][NextE]_vars /\ WF_vars(NextE)

\* ---- get_size on every array, get_length on every dimension -------------------
InitS == InitSizes /\ IdlePipeline /\ IdleTypes /\ IdleValidation /\ IdleAccess /\ IdleEvaluator
         /\ IdleLiterals /\ IdleRest

NextS ==
    \/ CallGetSize /\ UNCHANGED <<pvars, tvars, gvars, avars, evars, lvars, rvars>>
    \/ CallGetLength /\ UNCHANGED <<pvars, tvars, gvars, avars, evars, lvars, rvars>>

SpecSizes == InitS /\ [][NextS]_vars

\* ---- get_literal_actual_signed_type_name on every literal ----------------------
InitL == InitLiterals /\ IdlePipeline /\ IdleTypes /\ IdleValidation /\ IdleAccess
         /\ IdleEvaluator /\ IdleSizes /\ IdleRest

NextL == CallGetLiteralType /\ UNCHANGED <<pvars, tvars, gvars, avars, evars, svars, rvars>>

SpecLiterals == InitL /\ [][NextL]_vars

\* the functions of the validator, the resolver and the type system stand idle
IdleCompiler ==
    IdleValidation /\ IdleAccess /\ IdleEvaluator /\ IdleSizes /\ IdleLiterals

\* ---- Object::try_from on every file name ---------------------------------------
InitO == InitObjects /\ IdlePipeline /\ IdleTypes /\ IdleCompiler /\ IdleConfig /\ IdleIds
         /\ IdlePou

NextO ==
    CallObjectTryFrom /\ UNCHANGED <<pvars, tvars, gvars, avars, evars, svars, lvars, cvars,
                                   ivars, fvars>>

SpecObjects == InitO /\ [][NextO]_vars

\* ---- Project::from_config on every descriptor -----------------------------------
InitC == InitConfig /\ IdlePipeline /\ IdleTypes /\ IdleCompiler /\ IdleObjects /\ IdleIds
         /\ IdlePou

NextC ==
    CallFromConfig /\ UNCHANGED <<pvars, tvars, gvars, avars, evars, svars, lvars, ovars,
                                ivars, fvars>>

SpecConfig == InitC /\ [][NextC]_vars

\* ---- next_id by every call of a build, in every interleaving ---------------------
InitI ==
    /\ InitIds /\ IdlePipeline /\ IdleTypes /\ IdleCompiler /\ IdleObjects /\ IdleConfig
    /\ IdlePou

NextI ==
    \E c \in IdCalls :
        NextId(c) /\ UNCHANGED <<pvars, tvars, gvars, avars, evars, svars, lvars, ovars, cvars,
                                 fvars>>

SpecIds == InitI /\ [][NextI]_vars

\* ---- visit_pou on every POU and every index ------------------------------------
InitF ==
    /\ InitPou /\ IdlePipeline /\ IdleTypes /\ IdleCompiler /\ IdleObjects /\ IdleConfig
    /\ IdleIds

NextF ==
    VisitPou /\ UNCHANGED <<pvars, tvars, gvars, avars, evars, svars, lvars, ovars, cvars,
                            ivars>>

SpecPou == InitF /\ [][NextF]_vars


(***************************************************************************)
(*                              PROPERTIES                                 *)
(***************************************************************************)

IsPrefix(s, t) == Len(s) <= Len(t) /\ s = SubSeq(t, 1, Len(s))

\* the stages of a build under compile, and under the drivers of the tests
PipelineOrder == <<"parse", "index", "annotate", "validate", "emit">>
TestOrder     == <<"parse", "index", "annotate", "emit">>

\* validate handed the diagnostician a diagnostic of severity error
ValidationProducedError ==
    \E i \in 1..Len(reported) :
        /\ reported[i].stage \in {"global", "unit"}
        /\ \E d \in reported[i].diags : d.severity = "error"

\* C1: an error-severity diagnostic stops the build before emission: compile
\* never calls codegen for a project whose validation produced an error.
\* compile calls codegen whatever validate reported, so this is violated.
C1_NoCodegenAfterValidationError ==
    (entry = "compile" /\ "emit" \in Range(stages)) => ~ValidationProducedError

\* C2, as stated: emission never starts before validate has completed, the
\* stages running in the order parse, index, annotate, validate, emit.
\* Violated by compile_to_string and by the runner's compile.
C2_EmissionOnlyAfterValidate ==
    "emit" \in Range(stages) => stages = PipelineOrder

\* C2, amended: every driver runs parse, index, annotate in this order before
\* emission; compile also completes validate before it calls codegen, while
\* compile_to_string and the runner's compile emit the annotated project
\* without validating it.
C2_StagesInOrder ==
    IF entry = "compile"
    THEN IsPrefix(stages, PipelineOrder)
    ELSE IsPrefix(stages, TestOrder)

C2_Witness ==
    /\ entry = "compile"
    /\ pc = "emitting"
    /\ stages = PipelineOrder

\* C3: in ParsedProject::index every built-in type is registered exactly once
\* and before the index of any user unit is imported.
\* index imports the units first and registers the built-in types afterwards.
C3_BuiltinTypesBeforeUnits ==
    "index" \in Range(stages) =>
        /\ \A n \in Range(BuiltinTypeNames) : Count(index.types, n) = 1
        /\ \A i, j \in 1..Len(index.imports) :
              (index.imports[i].kind = "type" /\ index.imports[j].kind = "unit") => i < j

\* the files whose per-unit index was imported into the index, in import order
UnitImportOrder(ix) ==
    LET evs == SelectSeq(ix.imports, LAMBDA e : e.kind = "unit")
    IN [i \in 1..Len(evs) |-> evs[i].name]

\* C4: the per-unit indexes are imported in a fixed order that the project
\* alone determines: the sources in project order, then the includes, then
\* the headers of the libraries in library order.
C4_ImportOrder ==
    "index" \in Range(stages) =>
        UnitImportOrder(index) = project.sources \o project.includes \o LibraryHeaders(project)

C4_Witness ==
    /\ "index" \in Range(stages)
    /\ Len(project.sources) >= 1
    /\ Len(project.includes) >= 1
    /\ Len(project.libraries) = 2
    /\ Len(UnitImportOrder(index)) = 4

\* C5: a unit of External linkage is never emitted: codegen and
\* codegen_to_string run emission tasks for Internal units only.
\* Both iterate over every unit of the project, so this is violated.
C5_OnlyInternalUnitsEmitted ==
    \A t \in taskDone : units[t[1]].linkage = "Internal"

\* C6: codegen runs exactly one task per (unit, target) pair and returns
\* |units| x |targets| objects, one per pair; with no target given it returns
\* one object per unit, for the System target; codegen_to_string returns one
\* text per unit.
C6_OneObjectPerUnitAndTarget ==
    LET tg == IF targets = <<>> THEN <<"System">> ELSE targets
    IN /\ entry = "compile" => taskDone \subseteq (1..Len(units)) \X (1..Len(tg))
       /\ pc = "generated" =>
             /\ taskDone = (1..Len(units)) \X (1..Len(tg))
             /\ Len(objects) = Len(units) * Len(tg)
             /\ \A i \in 1..Len(units), j \in 1..Len(tg) :
                   Count(objects, [unit |-> units[i].file, target |-> tg[j]]) = 1
       /\ (entry = "compile_to_string" /\ outcome = "ok") =>
             /\ Len(objects) = Len(units)
             /\ \A i \in 1..Len(units) :
                   objects[i] = [unit |-> units[i].file, target |-> "string"]

C6_Witness ==
    /\ pc = "generated"
    /\ Len(units) >= 2
    /\ Len(targets) = 2
    /\ Len(objects) = 2 * Len(units)

SameNamedClass(a, b) ==
    \/ a.definition.kind = "Integer" /\ b.definition.kind = "Integer"
    \/ a.definition.kind = "Float" /\ b.definition.kind = "Float"
    \/ /\ a.definition.kind = "String" /\ b.definition.kind = "String"
       /\ a.definition.encoding = b.definition.encoding

\* C8, as stated: for two types of the same class get_bigger_type(a, b) and
\* get_bigger_type(b, a) return the same type.
\* Violated by two distinct types of equal rank, such as UINT8 and CHAR.
C8_Symmetric ==
    (tpc = "returned" /\ SameNamedClass(left_type, right_type)) =>
        bigger = get_bigger_type(right_type, left_type, get_index)

\* C8, amended: for two types of the same class whose ranks differ, both
\* argument orders return the type of the higher rank; at equal rank the call
\* returns its left argument.
C8_SymmetricUnlessTie ==
    (tpc = "returned" /\ SameNamedClass(left_type, right_type)) =>
        LET lrank == get_rank(left_type.definition, get_index)
            rrank == get_rank(right_type.definition, get_index)
        IN IF lrank # rrank
           THEN /\ bigger = (IF lrank < rrank THEN right_type ELSE left_type)
                /\ bigger = get_bigger_type(right_type, left_type, get_index)
           ELSE bigger = left_type

C8_Witness ==
    /\ tpc = "returned"
    /\ left_type.name = "INT16"
    /\ right_type.name = "INT32"
    /\ bigger = right_type

\* one of the two is an integer type and the other a float type
IntFloatMix(a, b) == {a.definition.kind, b.definition.kind} = {"Integer", "Float"}

PromotedReal(a, b) ==
    IF a.definition.size <= 32 /\ b.definition.size <= 32
    THEN get_type(get_index, "REAL")
    ELSE get_type(get_index, "LREAL")

\* C10, as stated: for one integer and one float type, in either order,
\* get_bigger_type returns REAL when both are at most 32 bits wide and LREAL
\* otherwise.
\* Violated by the integer types whose nature is not numeric, such as CHAR.
C10_IntFloatPromotes ==
    (tpc = "returned" /\ IntFloatMix(left_type, right_type)) =>
        bigger = PromotedReal(left_type, right_type)

\* C10, amended: for a float type and an integer type of a numeric nature
\* (signed or unsigned), both in the index, in either order, the result is
\* REAL when both are at most 32 bits wide and LREAL otherwise; for an integer
\* type of another nature (bit or char) the result is the left argument.
C10_NumericIntFloatPromotes ==
    ( /\ tpc = "returned"
      /\ IntFloatMix(left_type, right_type)
      /\ {left_type, right_type} \subseteq get_index ) =>
        LET int == IF left_type.definition.kind = "Integer" THEN left_type ELSE right_type
        IN IF int.nature \in {"Signed", "Unsigned"}
           THEN bigger = PromotedReal(left_type, right_type)
           ELSE bigger = left_type

C10_Witness ==
    /\ tpc = "returned"
    /\ left_type.name = "INT64"
    /\ right_type.name = "REAL32"
    /\ bigger.name = "LREAL"

\* C11: a pointer type and an integer type are of the same class only when the
\* integer type is LWORD; a pointer paired with any other integer type, LINT
\* and ULINT included, is not of the same class.
\* is_same_type_class accepts every integer type of POINTER_SIZE bits, the
\* signed LINT included; the formula lets pass the types that share the
\* definition of LWORD (unsigned, 64 bits), which the function cannot tell apart.
C11_PointerClassOnlyLWORD ==
    ( /\ tpc = "classified"
      /\ left_type.definition.kind = "Pointer"
      /\ right_type.definition.kind = "Integer"
      /\ same_class = "true" ) =>
        right_type.definition = get_type(get_index, "LWORD").definition

\* storage bits, plus one for a signed integer
IntegerRank(t) == t.definition.size + (IF t.definition.signed THEN 1 ELSE 0)

\* C12: for two integer types get_bigger_type returns the one of the higher
\* rank (storage bits, plus one if signed): the wider type wins whatever the
\* argument order, and at equal width the signed type wins over the unsigned
\* one whatever the argument order.
C12_HigherIntegerRankWins ==
    ( /\ tpc = "returned"
      /\ left_type.definition.kind = "Integer"
      /\ right_type.definition.kind = "Integer" ) =>
        LET l == left_type
            r == right_type
        IN /\ IntegerRank(l) > IntegerRank(r) => bigger = l
           /\ IntegerRank(l) < IntegerRank(r) => bigger = r
           /\ l.definition.size > r.definition.size => bigger = l
           /\ l.definition.size < r.definition.size => bigger = r
           /\ (l.definition.size = r.definition.size /\ l.definition.signed # r.definition.signed)
                 => bigger.definition.signed /\ bigger \in {l, r}

C12_Witness ==
    /\ tpc = "returned"
    /\ left_type.name = "UINT16"
    /\ right_type.name = "INT16"
    /\ bigger = right_type

\* the diagnostics of one group for one name
SameCollision(d, e) == d.text = e.text /\ d.name = e.name

\* C13: for a top-level name carried by n >= 2 colliding declarations, global
\* validation emits, for each collision, exactly one diagnostic per
\* participating declaration, located at it and listing the locations of all
\* the other colliding declarations; FUNCTION foo, PROGRAM foo and
\* FUNCTION_BLOCK foo give five diagnostics: two ambiguous-callable ones between
\* the function and the program, three name conflicts naming both siblings.
C13_OneDiagnosticPerDeclaration ==
    vpc = "validated" =>
        /\ \A k \in 1..Len(diagnostics) :
              LET d == diagnostics[k]
              IN /\ d.at \in 1..Len(decls)
                 /\ decls[d.at].name = d.name
                 /\ d.others # <<>>
                 /\ \A k2 \in 1..Len(diagnostics) :
                       (k2 # k /\ SameCollision(d, diagnostics[k2])) => diagnostics[k2].at # d.at
                 /\ Range(d.others) =
                       { diagnostics[k2].at : k2 \in { x \in 1..Len(diagnostics) :
                                                        SameCollision(d, diagnostics[x]) } } \ {d.at}
        /\ \A i, j \in 1..Len(decls) :
              (i # j /\ decls[i] = decls[j] /\ ~decls[i].auto) =>
                  \E k \in 1..Len(diagnostics) :
                      diagnostics[k].at = i /\ j \in Range(diagnostics[k].others)
        /\ ( /\ Len(decls) = 3
             /\ \A i \in 1..3 : decls[i].name = "foo" /\ ~decls[i].auto
             /\ decls[1].kind = "Function" /\ decls[2].kind = "Program"
             /\ decls[3].kind = "FunctionBlock" ) =>
                /\ Len(diagnostics) = 5
                /\ { <<diagnostics[k].at, diagnostics[k].others>> :
                        k \in { x \in 1..5 : diagnostics[x].text = "Ambiguous callable symbol." } }
                     = { <<1, <<2>> >>, <<2, <<1>> >> }
                /\ { <<diagnostics[k].at, diagnostics[k].others>> :
                        k \in { x \in 1..5 : diagnostics[x].text = "" } }
                     = { <<1, <<2, 3>> >>, <<2, <<1, 3>> >>, <<3, <<1, 2>> >> }

C13_Witness ==
    /\ vpc = "validated"
    /\ Len(decls) = 3
    /\ decls[1].kind = "Function" /\ decls[2].kind = "Program" /\ decls[3].kind = "FunctionBlock"
    /\ \A i \in 1..3 : decls[i].name = "foo"
    /\ Len(diagnostics) = 5

\* declaration i is a type the user declared and declaration j a POU of its name
TypeAndPou(i, j) ==
    /\ decls[i].kind = "Type" /\ ~decls[i].auto
    /\ decls[j].kind \in {"Function", "Program", "FunctionBlock"}
    /\ decls[j].name = decls[i].name

\* an ambiguous-datatype diagnostic located at declaration i that lists j
AmbiguousDatatypeAt(i, j) ==
    \E k \in 1..Len(diagnostics) :
        /\ diagnostics[k].text = "Ambiguous datatype."
        /\ diagnostics[k].at = i
        /\ j \in Range(diagnostics[k].others)

\* C14, as stated: a name shared by a declared type and a POU is reported as
\* an ambiguous datatype, with one diagnostic for the type and one for the POU,
\* whatever the kind of the POU.
\* Violated by FUNCTION foo with TYPE foo, which is reported not at all.
C14_TypeAndAnyPouAmbiguous ==
    vpc = "validated" =>
        \A i, j \in 1..Len(decls) :
            TypeAndPou(i, j) => AmbiguousDatatypeAt(i, j) /\ AmbiguousDatatypeAt(j, i)

\* C14, amended: a name shared by a declared type and a function block is
\* reported as an ambiguous datatype, with one diagnostic for the type and one
\* for the function block; a function or a program that shares its name with
\* a declared type gets no ambiguous-datatype diagnostic.
C14_TypeAndFunctionBlockAmbiguous ==
    vpc = "validated" =>
        /\ \A i, j \in 1..Len(decls) :
              TypeAndPou(i, j) =>
                  IF decls[j].kind = "FunctionBlock"
                  THEN AmbiguousDatatypeAt(i, j) /\ AmbiguousDatatypeAt(j, i)
                  ELSE ~AmbiguousDatatypeAt(i, j) /\ ~AmbiguousDatatypeAt(j, i)
        /\ ( /\ Len(decls) = 2
             /\ decls[1].kind = "Function" /\ decls[2].kind = "Type"
             /\ ~decls[2].auto /\ decls[1].name = decls[2].name ) =>
                diagnostics = <<>>

C14_Witness ==
    /\ vpc = "validated"
    /\ Len(decls) = 2
    /\ decls[1].kind = "FunctionBlock"
    /\ TypeAndPou(2, 1)
    /\ Len(diagnostics) = 2
    /\ AmbiguousDatatypeAt(1, 2) /\ AmbiguousDatatypeAt(2, 1)

\* C15: automatically generated types never cause a duplicate-name
\* diagnostic: however often the same generated type is registered, from one
\* file or from several, no diagnostic is located at it, lists it or carries
\* its name.
C15_GeneratedTypesNeverCollide ==
    vpc = "validated" =>
        \A k \in 1..Len(diagnostics) :
            /\ ~decls[diagnostics[k].at].auto
            /\ \A o \in Range(diagnostics[k].others) : ~decls[o].auto
            /\ \A i \in 1..Len(decls) : decls[i].auto => decls[i].name # diagnostics[k].name

C15_Witness ==
    /\ vpc = "validated"
    /\ Len(decls) = 3
    /\ decls[1].auto /\ decls[2].auto /\ decls[3].auto
    /\ decls[1].file # decls[3].file
    /\ decls[1] = decls[2]
    /\ diagnostics = <<>>

\* the diagnostics located at the k-th index of the access
DiagnosticsAt(k) == { i \in 1..Len(access_diags) : access_diags[i].at = k }

Resolved(dim) == as_int_value(dim.start_offset).ok /\ as_int_value(dim.end_offset).ok

OutOfRange(k) ==
    \/ access_idx[k] < as_int_value(access_dims[k].start_offset).value
    \/ access_idx[k] > as_int_value(access_dims[k].end_offset).value

\* C16: an array access with literal indexes gets exactly one
\* IncompatibleArrayAccessRange diagnostic for each index that lies outside the
\* inclusive range [start, end] of its own dimension, naming that dimension's
\* range, and none for an index inside it; with negative bounds, with several
\* dimensions, with nested arrays and with bounds given by global constants.
C16_OneRangeDiagnosticPerBadIndex ==
    apc = "validated" =>
        \A k \in 1..Len(access_dims) :
            Resolved(access_dims[k]) =>
                /\ Cardinality(DiagnosticsAt(k)) = (IF OutOfRange(k) THEN 1 ELSE 0)
                /\ \A i \in DiagnosticsAt(k) :
                      /\ access_diags[i].kind = "IncompatibleArrayAccessRange"
                      /\ access_diags[i].range = RangeOf(access_dims[k])

\* multi[1, 3] is accepted where multi[1, 4] is reported once, for the second
\* dimension only
C16_Witness ==
    /\ apc = "validated"
    /\ access_dims = <<Dim(0, 1), Dim(2, 3)>>
    /\ access_idx = <<1, 4>>
    /\ access_diags = <<incompatible_array_access_range(<<2, 3>>, 2)>>

\* when the evaluation has ended, a constant is reduced to a literal or is
\* listed as unresolvable, and never both
LiteralOrUnresolvable ==
    \A id \in DOMAIN const_expressions :
        (const_expressions[id].state = "Resolved") # (id \in unresolvables)

\* C17: evaluate_constants terminates on every index, also with constants that
\* depend on each other cyclically or on undefined names; when it ends, each
\* constant expression is either reduced to a literal value or listed in the
\* returned unresolvables, never both and never neither.
C17_TerminatesWithLiteralOrUnresolvable ==
    /\ <>(epc = "done")
    /\ [](epc = "done" => LiteralOrUnresolvable)

\* a := b, b := a (a cycle) and c := 1: the evaluation has ended, c is a
\* literal, a and b are returned
C17_Witness ==
    /\ epc = "done"
    /\ DOMAIN const_expressions = {"a", "b", "c"}
    /\ const_expressions["a"].expr = ReferenceExpr("b")
    /\ const_expressions["b"].expr = ReferenceExpr("a")
    /\ const_expressions["c"].state = "Resolved"
    /\ unresolvables = {"a", "b"}

\* C18: the size in bits of an array type is the product of the lengths of all
\* its dimensions times the size in bits of its element type, also when the
\* element type is itself an array. Both sides are counted in bytes of 8 bits.
C18_ArraySizeIsCountTimesElementSize ==
    spc = "sized" =>
        /\ ~size_result.panicked
        /\ size_result.bytes =
              element_count(size_type.definition)
              * get_size(get_type_information_or_void(SizeIndex, size_type.definition.inner),
                         SizeIndex)

\* C19: Dimension::get_length returns exactly end - start + 1 for every
\* dimension whose bounds can be resolved (start may be negative), the result is
\* at least 1, and it returns an error only when a bound cannot be resolved to
\* an integer.
C19_LengthIsEndMinusStartPlusOne ==
    spc = "measured" =>
        IF Resolved(length_dim)
        THEN /\ length_result.ok
             /\ ~length_result.value.high
             /\ length_result.value.low =
                   as_int_value(length_dim.end_offset).value
                   - as_int_value(length_dim.start_offset).value + 1
             /\ length_result.value.low >= 1
        ELSE ~length_result.ok

\* the narrowest of SINT, INT, DINT, LINT whose range contains the value
SmallestSignedType(v) ==
    CASE Leq(Num(-1, 7, 0), v) /\ Leq(v, Num(1, 7, -1))   -> "SINT"
      [] Leq(Num(-1, 15, 0), v) /\ Leq(v, Num(1, 15, -1)) -> "INT"
      [] Leq(Num(-1, 31, 0), v) /\ Leq(v, Num(1, 31, -1)) -> "DINT"
      [] OTHER -> "LINT"

InLintRange(v) == Leq(Num(-1, 63, 0), v) /\ Leq(v, Num(1, 63, -1))

ZeroOrOne(v) == v = Num(0, 0, 0) \/ v = Num(0, 0, 1)

\* C20: an integer literal is given the smallest signed type among SINT, INT,
\* DINT, LINT whose range contains its value, for every value in the LINT
\* range; the literals 0 and 1 are typed BOOL only when the consumer's hint is
\* BOOL and otherwise SINT.
C20_SmallestSignedTypeBoolOnlyOnHint ==
    (lpc = "typed" /\ literal_signed /\ InLintRange(literal_value)) =>
        literal_type = (IF ZeroOrOne(literal_value) /\ literal_hint = "BOOL"
                        THEN "BOOL" ELSE SmallestSignedType(literal_value))

\* C20, as the code has it: every value of the LINT range other than 0 and 1
\* gets the smallest signed type that contains it; 0 and 1 get BOOL whatever
\* the consumer's hint is.
C20_SmallestSignedTypeBoolForZeroAndOne ==
    (lpc = "typed" /\ literal_signed /\ InLintRange(literal_value)) =>
        literal_type = (IF ZeroOrOne(literal_value)
                        THEN "BOOL" ELSE SmallestSignedType(literal_value))

\* 2^31 is typed LINT, one above the range of DINT
C20_Witness ==
    /\ lpc = "typed"
    /\ literal_signed
    /\ literal_value = Num(1, 31, 0)
    /\ literal_type = "LINT"

\* the kind the extensions stand for
KindOfExtension(ext) ==
    CASE ext = "o" -> "Default" [] ext = "bc" -> "Bitcode" [] ext = "ll" -> "IR"
      [] ext = "ir" -> "IR" [] ext = "so" -> "Shared" [] ext = "a" -> "Archive"
      [] ext = "None" -> "Executable" [] OTHER -> "-"

\* C21: the kind of an output object is derived from the file extension of its
\* path: .o gives Default, .bc Bitcode, .ll and .ir both give IR, .so Shared,
\* .a Archive, and a path without extension gives Executable; only an
\* extension outside this list is an error.
C21_KindFromExtension ==
    opc = "returned" =>
        IF KindOfExtension(extension(object_path)) # "-"
        THEN object_result = [ok |-> TRUE, kind |-> KindOfExtension(extension(object_path))]
        ELSE ~object_result.ok

\* the directory that holds the descriptor: the parent of its path, taken from
\* the current directory if the path is relative
DescriptorDirectory == Opened(current_dir, parent(config_path).path)

\* the files the paths of a list name when they are opened
OpenedAll(paths) == [i \in DOMAIN paths |-> Opened(current_dir, paths[i])]

\* the descriptor with its paths resolved against the descriptor's directory
ResolvedConfig == to_resolved(project_config, DescriptorDirectory)

Existing(paths) == SelectSeq(paths, LAMBDA f : f \in file_system)

\* C22: when a project is built from a descriptor by Project::from_config,
\* every relative path in files, libraries[].path and libraries[].include_path
\* is resolved against the directory that holds the descriptor, and every
\* absolute path is left unchanged.
C22_PathsResolvedAgainstDescriptor ==
    (cpc = "returned" /\ config_result.ok) =>
        /\ OpenedAll(config_result.sources) = Existing(ResolvedConfig.files)
        /\ \A l \in DOMAIN config_result.libraries :
              /\ Opened(current_dir, config_result.libraries[l].location)
                    = ResolvedConfig.libraries[l].path
              /\ OpenedAll(config_result.libraries[l].headers)
                    = Existing(ResolvedConfig.libraries[l].include_path)

\* what an index holds: its declarations, types and implementations
IndexContent(ix) == <<ix.symbols, ix.types, ix.implementations>>

\* C23: after ParsedProject::index has returned the global index, no later
\* stage modifies it: constant evaluation, annotation of the units, validation
\* and codegen only read the index, and the index seen by codegen equals the
\* one produced by the index stage.
C23_IndexFrozenAfterIndexStage ==
    [][pc \notin {"start", "parsed"} => IndexContent(index') = IndexContent(index)]_vars

\* C23, as the code has it: annotate takes the index of the index stage and
\* imports into it the new_index gathered from the units; from the annotated
\* project on, validate and every form of codegen leave the index as it is.
C23_IndexFrozenAfterAnnotate ==
    [][pc \notin {"start", "parsed", "indexed"} => index' = index]_vars

\* codegen runs on an index that holds an instance annotate has added
C23_Witness ==
    /\ pc = "emitting"
    /\ entry = "compile"
    /\ Mangle(GenericName, "INT") \in Range(index.implementations)
    /\ index = annotate_index(index_units(units), units)

\* C24: validate changes none of the units, the index, the annotations or the
\* string literals of the annotated project: the artifact handed to codegen
\* after validate is the same as before validate, for every outcome of
\* validation. The annotations are held by the index (new_index) and the
\* units; string literals are not modelled.
C24_ValidateChangesNothing ==
    [][(pc = "annotated" /\ pc' = "validated") => (units' = units /\ index' = index)]_vars

\* validate has reported an error and the units are all there for codegen
C24_Witness ==
    /\ pc = "validated"
    /\ ValidationProducedError
    /\ units = ParseJobs(project)
    /\ \E i \in 1..Len(units) : validate_unit(units[i]) # {}

\* the ids handed out, each with the call and the position it went to
Handed == {h \in IdCalls \X (1..MaxIds) : h[2] <= Len(node_ids[h[1]])}

\* C25: no two AST nodes of one build get the same id: the ids handed out
\* through the clones of the id provider given to every parse_file,
\* pre_process, built-in parse and TypeAnnotator::visit_unit call, and the id
\* passed to AstAnnotations::new, are pairwise distinct, also when these calls
\* run concurrently.
C25_IdsPairwiseDistinct ==
    \A g \in Handed, h \in Handed :
        g # h => node_ids[g[1]][g[2]] # node_ids[h[1]][h[2]]

\* every call has taken an id, and between two ids of parse_file other calls
\* have taken theirs
C25_Witness ==
    /\ \A c \in IdCalls : node_ids[c] # <<>>
    /\ Len(node_ids["parse_file"]) = 2
    /\ node_ids["parse_file"][2] > node_ids["parse_file"][1] + 1
    /\ node_ids["AstAnnotations::new"][1] < node_ids["visit_unit"][1]

\* the position in ParseJobs of the first file that cannot be loaded, or 0
FirstUnreadable == FirstIndex(ParseJobs(project), Unreadable)

\* parse has stopped at the first file that could not be loaded
ParseAborted ==
    /\ outcome = "io_read_error"
    /\ pc = "done"
    /\ loaded = SeqMap(FileOf, SubSeq(ParseJobs(project), 1, FirstUnreadable))
    /\ units = <<>>
    /\ stages = <<>>
    /\ index = EmptyIndex
    /\ taskDone = {}
    /\ objects = <<>>

\* codegen has returned the error and nothing ran after it
CodegenAborted ==
    /\ outcome = "codegen_error"
    /\ pc = "done"
    /\ objects = <<>>
    /\ stages = <<"parse", "index", "annotate", "validate", "emit">>

\* C26: a hard failure in any stage aborts the build at that point: when
\* loading a source, include or library header fails, parse returns an
\* io_read_error, produces no ParsedProject and loads or parses no file after
\* the failing one; when any emission task fails, codegen returns an error and
\* no GeneratedProject; in both cases no later stage of compile runs.
C26_HardFailureAborts ==
    /\ (pc # "start" /\ FirstUnreadable # 0) => ParseAborted
    /\ (entry = "compile" /\ taskFailed /\ pc # "emitting") => CodegenAborted
    /\ outcome \in {"io_read_error", "codegen_error"} => pc = "done"

\* compile has stopped in parse at a file that is followed by another one
C26_Witness ==
    /\ entry = "compile"
    /\ ParseAborted
    /\ FirstUnreadable # 0
    /\ FirstUnreadable < Len(ParseJobs(project))
    /\ Len(loaded) = FirstUnreadable

\* codegen has stopped at a failed task while other tasks had not run
C26_EmissionAborted ==
    /\ entry = "compile"
    /\ CodegenAborted
    /\ taskFailed
    /\ taskDone # Tasks(units, targets)

\* the objects as codegen has to list them: unit after unit, and within a
\* unit target after target
ListedByUnitThenTarget ==
    LET tg == EffectiveTargets(targets)
    IN /\ Len(objects) = Len(units) * Len(tg)
       /\ \A i \in 1..Len(units), j \in 1..Len(tg) :
              objects[(i - 1) * Len(tg) + j] = Object(units[i], tg[j])

\* C27: the result of codegen does not depend on the order in which the
\* parallel emission tasks complete: the objects of GeneratedProject are
\* always listed by unit order and, within a unit, by target order, for every
\* interleaving of the tasks.
C27_ObjectsInUnitAndTargetOrder ==
    (entry = "compile" /\ pc = "generated") => ListedByUnitThenTarget

\* codegen has returned the objects of several units and targets after a task
\* had completed ahead of one listed before it
C27_Witness ==
    /\ entry = "compile"
    /\ pc = "generated"
    /\ overtaken
    /\ Len(units) >= 2
    /\ Len(targets) >= 2
    /\ Len(objects) = Len(units) * Len(targets)

\* the FunctionReturnMissing diagnostics pushed for the validated POU
ReturnMissingDiagnostics ==
    SelectSeq(pou_diagnostics,
              LAMBDA d : d.kind = "FunctionReturnMissing" /\ d.at = pou.name)

\* C28: the validator emits a FunctionReturnMissing diagnostic for a POU
\* exactly when the POU is of kind Function and the index has no return type
\* for its name; a POU of any other kind never gets this diagnostic.
C28_ReturnMissingOnlyForFunctions ==
    ppc = "validated" =>
        /\ (ReturnMissingDiagnostics # <<>>) <=>
               (pou.pou_type = "Function" /\ return_types[pou.name] = None)
        /\ Len(ReturnMissingDiagnostics) <= 1
        /\ pou.pou_type # "Function" => pou_diagnostics = <<>>

\* a function without return type has got the diagnostic, while the index
\* knows a return type for the other name
C28_Witness ==
    /\ ppc = "validated"
    /\ pou = [pou_type |-> "Function", name |-> "foo"]
    /\ return_types["foo"] = None
    /\ return_types["bar"] # None
    /\ pou_diagnostics = <<function_return_missing(pou)>>

\* a program the index knows no return type for has got no diagnostic
C28_ProgramWithoutDiagnostic ==
    /\ ppc = "validated"
    /\ pou.pou_type = "Program"
    /\ return_types[pou.name] = None
    /\ pou_diagnostics = <<>>

\* what validate has handed to the diagnostician, call by call
ValidationReports == SelectSeq(reported, LAMBDA r : r.stage \in {"global", "unit"})

\* the diagnostics the validator produces for the annotated project
ValidatorDiagnostics ==
    perform_global_validation(index) \cup UNION { validate_unit(units[i]) : i \in 1..Len(units) }

\* C29: validate hands every diagnostic the validator produces to the
\* diagnostician exactly once: the diagnostics of global validation are
\* reported before those of any unit, and each unit's diagnostics are reported
\* before the next unit is validated, in unit order.
C29_EveryDiagnosticReportedOnce ==
    (entry = "compile" /\ "validate" \in Range(stages)) =>
        /\ Len(ValidationReports) = 1 + Len(units)
        /\ ValidationReports[1].stage = "global"
        /\ ValidationReports[1].diags = perform_global_validation(index)
        /\ \A i \in 1..Len(units) :
              /\ ValidationReports[i + 1].stage = "unit"
              /\ ValidationReports[i + 1].unit = units[i].file
              /\ ValidationReports[i + 1].diags = validate_unit(units[i])
        /\ \A d \in ValidatorDiagnostics :
              Cardinality({k \in 1..Len(ValidationReports) :
                              d \in ValidationReports[k].diags}) = 1

\* validate has reported a diagnostic of global validation, and a diagnostic
\* of a unit that is followed by another unit
C29_Witness ==
    /\ entry = "compile"
    /\ pc = "validated"
    /\ perform_global_validation(index) # {}
    /\ \E i \in 1..Len(units) - 1 : validate_unit(units[i]) # {}
    /\ Len(ValidationReports) = 1 + Len(units)

\* is_same_type_class with the arguments of the call swapped
SwappedClass ==
    is_same_type_class(right_type.definition, left_type.definition, get_index)

\* C30: is_same_type_class is symmetric: for every pair of types a and b
\* (integers, floats, strings, pointers, arrays, structs),
\* is_same_type_class(a, b) = is_same_type_class(b, a).
C30_SameTypeClassSymmetric ==
    tpc = "classified" => ((same_class = "true") <=> SwappedClass)

\* the pairs of a pointer and an integer as wide as a pointer
PointerAndWideInteger ==
    LET l == find_intrinsic_type(left_type.definition, get_index)
        r == find_intrinsic_type(right_type.definition, get_index)
    IN \/ l.kind = "Pointer" /\ r.kind = "Integer" /\ r.size = POINTER_SIZE
       \/ r.kind = "Pointer" /\ l.kind = "Integer" /\ l.size = POINTER_SIZE

\* apart from these pairs the order of the arguments does not matter
C30_SymmetricApartFromPointers ==
    (tpc = "classified" /\ ~PointerAndWideInteger) =>
        ((same_class = "true") <=> SwappedClass)

====
